---------------------------- MODULE Spec2Model ----------------------------
(***************************************************************************)
(* Ray-Casting: Vector2D, Line (segment) and Rays (ray bundle).            *)
(*                                                                         *)
(* Numbers.  Every coordinate of the program is a JavaScript number, an    *)
(* IEEE-754 double.  A number is modelled by its exact value, written in   *)
(* binary.  Below 2^30 in magnitude it is sign, integer part and fraction  *)
(* bits:                                                                   *)
(*     [neg |-> FALSE, int |-> 2, frac |-> <<1>>]   is 2.5                  *)
(* and from 2^30 on it is sign, significant bits and binary exponent:      *)
(*     [neg |-> FALSE, bits |-> <<1, 1>>, exp |-> 31]   is 3 * 2^31         *)
(* Every arithmetic operator computes the exact result and rounds it to 53 *)
(* significant bits, ties to even, as the hardware does.  Exponent range   *)
(* (overflow, subnormals), NaN, the infinities and the sign of zero are    *)
(* outside the model: no value of the model comes near them.               *)
(***************************************************************************)
EXTENDS Integers, Sequences, FiniteSets, TLC

(***************************************************************************)
(* Bit strings, most significant bit first, and the same magnitudes as     *)
(* strings of 12-bit limbs (digits in base 4096) for the arithmetic.       *)
(***************************************************************************)
Zeros(k) == [i \in 1..k |-> 0]

MaxOf(m, n) == IF m < n THEN n ELSE m

AllZero(b) == \A i \in 1..Len(b) : b[i] = 0

\* without its leading zeros
Trim(b) ==
  IF AllZero(b) THEN <<>>
  ELSE SubSeq(b, CHOOSE k \in 1..Len(b) :
                   b[k] # 0 /\ \A j \in 1..(k - 1) : b[j] = 0,
              Len(b))

\* without its trailing zeros
TrimRight(b) ==
  IF AllZero(b) THEN <<>>
  ELSE SubSeq(b, 1, CHOOSE k \in 1..Len(b) :
                      b[k] # 0 /\ \A j \in (k + 1)..Len(b) : b[j] = 0)

PadLeft(b, n) == Zeros(n - Len(b)) \o b

\* the last len bits of a natural number
BitsOfWidth(n, len) == [i \in 1..len |-> (n \div 2^(len - i)) % 2]

\* the bits of a natural number
NatBits(n) ==
  IF n >= 2^30 THEN BitsOfWidth(n, 31)
  ELSE BitsOfWidth(n, CHOOSE l \in 0..30 : n < 2^l /\ (l = 0 \/ n >= 2^(l - 1)))

RECURSIVE BitsNat(_)
BitsNat(b) ==
  IF Len(b) = 0 THEN 0
  ELSE IF Len(b) = 1 THEN b[1]
  ELSE BitsNat(SubSeq(b, 1, Len(b) \div 2)) * 2^(Len(b) - Len(b) \div 2)
         + BitsNat(SubSeq(b, Len(b) \div 2 + 1, Len(b)))

\* the limbs of a bit string whose length is a multiple of 12
LimbsOf(p) ==
  [j \in 1..(Len(p) \div 12) |-> BitsNat(SubSeq(p, 12 * (j - 1) + 1, 12 * j))]

ToLimbs(b) == LimbsOf(PadLeft(b, 12 * ((Len(b) + 11) \div 12)))

FromLimbs(l) ==
  [i \in 1..(12 * Len(l)) |->
     (l[(i - 1) \div 12 + 1] \div 2^(11 - ((i - 1) % 12))) % 2]

\* a < b for strings of one length
LessSame(a, b) ==
  \E i \in 1..Len(a) : a[i] < b[i] /\ \A j \in 1..(i - 1) : a[j] = b[j]

\* a < b as magnitudes
CmpLess(a, b) ==
  LessSame(PadLeft(a, MaxOf(Len(a), Len(b))), PadLeft(b, MaxOf(Len(a), Len(b))))

RECURSIVE AddFrom(_, _, _, _)
AddFrom(a, b, i, carry) ==
  IF i = 0 THEN (IF carry = 1 THEN <<1>> ELSE <<>>)
  ELSE Append(AddFrom(a, b, i - 1, (a[i] + b[i] + carry) \div 4096),
              (a[i] + b[i] + carry) % 4096)

RECURSIVE SubFrom(_, _, _, _)
SubFrom(a, b, i, borrow) ==
  IF i = 0 THEN <<>>
  ELSE Append(SubFrom(a, b, i - 1, IF a[i] - b[i] - borrow < 0 THEN 1 ELSE 0),
              (a[i] - b[i] - borrow + 4096) % 4096)

AddLimbs(a, b) ==
  AddFrom(PadLeft(a, MaxOf(Len(a), Len(b))), PadLeft(b, MaxOf(Len(a), Len(b))),
          MaxOf(Len(a), Len(b)), 0)

\* a - b for a >= b
SubLimbs(a, b) ==
  SubFrom(PadLeft(a, MaxOf(Len(a), Len(b))), PadLeft(b, MaxOf(Len(a), Len(b))),
          MaxOf(Len(a), Len(b)), 0)

\* limbs a times one limb k
RECURSIVE MulFrom(_, _, _, _)
MulFrom(a, i, k, carry) ==
  IF i = 0 THEN (IF carry = 0 THEN <<>> ELSE <<carry>>)
  ELSE Append(MulFrom(a, i - 1, k, (a[i] * k + carry) \div 4096),
              (a[i] * k + carry) % 4096)

\* limbs a times the first j limbs of b
RECURSIVE MulAcc(_, _, _)
MulAcc(a, b, j) ==
  IF j = 0 THEN <<>>
  ELSE AddLimbs(Append(MulAcc(a, b, j - 1), 0), MulFrom(a, Len(a), b[j], 0))

\* the largest limb d with lo <= d < hi and d * b <= r, given lo * b <= r < hi * b
RECURSIVE Search(_, _, _, _)
Search(r, b, lo, hi) ==
  IF hi - lo = 1 THEN lo
  ELSE IF CmpLess(r, MulFrom(b, Len(b), (lo + hi) \div 2, 0))
       THEN Search(r, b, lo, (lo + hi) \div 2)
       ELSE Search(r, b, (lo + hi) \div 2, hi)

\* the step of long division for the partial remainder r and the digit d
DivDigit(q, r, b, d) ==
  [q |-> Append(q, d), r |-> Trim(SubLimbs(r, MulFrom(b, Len(b), d, 0)))]

\* the same for a divisor of one limb, r being a plain number
DivShort(q, r, k) ==
  [q |-> Append(q, r \div k), r |-> IF r % k = 0 THEN <<>> ELSE <<r % k>>]

DivLong(q, r, b) == DivDigit(q, r, b, Search(r, b, 0, 4096))

\* one step of long division in base 4096
DivStep(prev, limb, b) ==
  IF prev.r = <<>> /\ limb = 0 THEN [q |-> Append(prev.q, 0), r |-> <<>>]
  ELSE IF Len(b) = 1
  THEN DivShort(prev.q, (IF prev.r = <<>> THEN 0 ELSE prev.r[1]) * 4096 + limb, b[1])
  ELSE DivLong(prev.q, Trim(Append(prev.r, limb)), b)

\* the quotient limbs of (the first i limbs of dividend) / b, and the remainder
RECURSIVE DivFrom(_, _, _)
DivFrom(dividend, b, i) ==
  IF i = 0 THEN [q |-> <<>>, r |-> <<>>]
  ELSE DivStep(DivFrom(dividend, b, i - 1), dividend[i], b)

AddBits(a, b) == Trim(FromLimbs(AddLimbs(ToLimbs(a), ToLimbs(b))))

SubBits(a, b) == Trim(FromLimbs(SubLimbs(ToLimbs(a), ToLimbs(b))))

MulLimbs(a, b) == MulAcc(a, b, Len(b))

MulBits(a, b) == Trim(FromLimbs(MulLimbs(ToLimbs(a), ToLimbs(b))))

(***************************************************************************)
(* Numbers: rounding to the double format and the arithmetic operators.    *)
(***************************************************************************)
Precision == 53

\* a number of magnitude 2^30 or more: bits * 2^exp, the first and the
\* last of the bits being 1
IsBig(x) == "bits" \in DOMAIN x

Big(neg, b, e) ==
  [neg |-> neg, bits |-> TrimRight(b), exp |-> e + Len(b) - Len(TrimRight(b))]

Num(k) ==
  IF -(2^30) < k /\ k < 2^30
  THEN [neg |-> k < 0, int |-> IF k < 0 THEN -k ELSE k, frac |-> <<>>]
  ELSE Big(k < 0, NatBits(IF k < 0 THEN -k ELSE k), 0)

\* an integer below 2^30 in magnitude, and its value
IsInt(x) == ~IsBig(x) /\ x.frac = <<>>
IntOf(x) == IF x.neg THEN -x.int ELSE x.int
IsZero(x) == ~IsBig(x) /\ x.int = 0 /\ x.frac = <<>>

\* the magnitude of x is Mag(x) * 2^Exp(x)
Mag(x) == IF IsBig(x) THEN x.bits ELSE Trim(NatBits(x.int) \o x.frac)
Exp(x) == IF IsBig(x) THEN x.exp ELSE -Len(x.frac)

\* the number with integer part ip and fraction bits fr
Parts(neg, ip, fr) ==
  [neg |-> neg /\ (ip # 0 \/ fr # <<>>), int |-> ip, frac |-> fr]

\* the number whose bits are p, the last -e of them after the binary point
Split(neg, p, e) ==
  Parts(neg, BitsNat(SubSeq(p, 1, Len(p) + e)),
        TrimRight(SubSeq(p, Len(p) + e + 1, Len(p))))

\* the number whose magnitude is b * 2^e, exactly, for b without leading zeros
ExactTrimmed(neg, b, e) ==
  IF b = <<>> THEN Num(0)
  ELSE IF Len(b) + e > 30 THEN Big(neg, b, e)
  ELSE IF e >= 0
  THEN [neg |-> neg, int |-> BitsNat(b \o Zeros(e)), frac |-> <<>>]
  ELSE Split(neg, PadLeft(b, MaxOf(Len(b), -e)), e)

\* the number whose magnitude is bits * 2^e, exactly
Exact(neg, bits, e) == ExactTrimmed(neg, Trim(bits), e)

\* whether b, longer than Precision bits, rounds away from zero
RoundsUp(b, sticky) ==
  /\ b[Precision + 1] = 1
  /\ \/ sticky
     \/ ~AllZero(SubSeq(b, Precision + 2, Len(b)))
     \/ b[Precision] = 1

RoundTrimmed(neg, b, e, sticky) ==
  Exact(neg,
        IF Len(b) <= Precision THEN b
        ELSE IF RoundsUp(b, sticky) THEN AddBits(SubSeq(b, 1, Precision), <<1>>)
        ELSE SubSeq(b, 1, Precision),
        IF Len(b) <= Precision THEN e ELSE e + Len(b) - Precision)

\* bits * 2^e (plus something smaller than 2^e when sticky) rounded to
\* Precision significant bits, ties to even
Round(neg, bits, e, sticky) == RoundTrimmed(neg, Trim(bits), e, sticky)

Neg(x) == IF IsZero(x) THEN x ELSE [x EXCEPT !.neg = ~x.neg]

Abs(x) == [x EXCEPT !.neg = FALSE]

MinExp(x, y) == IF Exp(x) < Exp(y) THEN Exp(x) ELSE Exp(y)

\* the magnitude of x in units of 2^e, for e <= Exp(x)
Aligned(x, e) == Mag(x) \o Zeros(Exp(x) - e)

\* x < y
Less(x, y) ==
  IF IsInt(x) /\ IsInt(y) THEN IntOf(x) < IntOf(y)
  ELSE IF x.neg /\ ~y.neg THEN ~(IsZero(x) /\ IsZero(y))
  ELSE IF ~x.neg /\ y.neg THEN FALSE
  ELSE CmpLess(Aligned(IF x.neg THEN y ELSE x, MinExp(x, y)),
               Aligned(IF x.neg THEN x ELSE y, MinExp(x, y)))

LessEq(x, y) == x = y \/ Less(x, y)

\* an integer whose sums and products with another such are exact
Small(x) == IsInt(x) /\ x.int < 32768

\* the position of the leading bit of x # 0
Top(x) == Len(Mag(x)) + Exp(x) - 1

\* the sum of two aligned magnitudes mx of x and my of y, with its sign
PlusMags(x, y, mx, my, less) ==
  Round(IF x.neg = y.neg \/ ~less THEN x.neg ELSE y.neg,
        IF x.neg = y.neg THEN AddBits(mx, my)
        ELSE SubBits(IF less THEN my ELSE mx, IF less THEN mx ELSE my),
        MinExp(x, y), FALSE)

PlusAligned(x, y, mx, my) == PlusMags(x, y, mx, my, CmpLess(mx, my))

\* x + y
Plus(x, y) ==
  IF Small(x) /\ Small(y) THEN Num(IntOf(x) + IntOf(y))
  ELSE IF IsZero(x) THEN y
  ELSE IF IsZero(y) THEN x
  \* an operand below a quarter of the other's last place is rounded away
  ELSE IF Top(y) < Top(x) - Precision - 2 THEN x
  ELSE IF Top(x) < Top(y) - Precision - 2 THEN y
  ELSE PlusAligned(x, y, Aligned(x, MinExp(x, y)), Aligned(y, MinExp(x, y)))

\* x - y
Minus(x, y) == Plus(x, Neg(y))

\* x * y
Times(x, y) ==
  IF Small(x) /\ Small(y) THEN Num(IntOf(x) * IntOf(y))
  ELSE IF IsZero(x) \/ IsZero(y) THEN Num(0)
  ELSE IF Abs(x) = Num(1) THEN (IF x.neg THEN Neg(y) ELSE y)
  ELSE IF Abs(y) = Num(1) THEN (IF y.neg THEN Neg(x) ELSE x)
  ELSE Round(x.neg # y.neg, MulBits(Mag(x), Mag(y)), Exp(x) + Exp(y), FALSE)

\* the rounded quotient, from the quotient and remainder of the magnitudes
\* after the dividend has been scaled by 2^k
Quotient(x, y, k, qr) ==
  Round(x.neg # y.neg, FromLimbs(qr.q), Exp(x) - Exp(y) - k, qr.r # <<>>)

DivideLimbs(x, y, k, dd, b) == Quotient(x, y, k, DivFrom(dd, b, Len(dd)))

DivideMags(x, y, a, b, k) ==
  DivideLimbs(x, y, k, ToLimbs(a \o Zeros(k)), Trim(ToLimbs(b)))

DivideScaled(x, y, a, b) ==
  DivideMags(x, y, a, b, MaxOf(0, Precision + 2 + Len(b) - Len(a)))

\* x / y  for y # 0
Divide(x, y) ==
  IF Small(x) /\ Small(y) /\ x.int % y.int = 0
  THEN Num(IntOf(x) \div IntOf(y))
  ELSE DivideScaled(x, y, Mag(x), Mag(y))

\* the bits of x after the binary point
FractionBits(x) ==
  IF Exp(x) >= 0 THEN <<>>
  ELSE SubSeq(PadLeft(Mag(x), MaxOf(Len(Mag(x)), -Exp(x))),
              MaxOf(Len(Mag(x)), -Exp(x)) + Exp(x) + 1,
              MaxOf(Len(Mag(x)), -Exp(x)))

\* Math.trunc(x)
MathTrunc(x) ==
  IF Exp(x) >= 0 THEN x
  ELSE IF Len(Mag(x)) + Exp(x) <= 0 THEN Num(0)
  ELSE Exact(x.neg, SubSeq(Mag(x), 1, Len(Mag(x)) + Exp(x)), 0)

\* Math.floor(x)
MathFloor(x) ==
  IF x.neg /\ ~AllZero(FractionBits(x)) THEN Minus(MathTrunc(x), Num(1))
  ELSE MathTrunc(x)

\* Math.ceil(x)
MathCeil(x) ==
  IF ~x.neg /\ ~AllZero(FractionBits(x)) THEN Plus(MathTrunc(x), Num(1))
  ELSE MathTrunc(x)

\* Math.round(x): the integer nearest to x, a half going up
MathRound(x) ==
  IF AllZero(FractionBits(x)) \/ FractionBits(x)[1] = 0 THEN MathTrunc(x)
  ELSE IF ~x.neg THEN Plus(MathTrunc(x), Num(1))
  ELSE IF AllZero(Tail(FractionBits(x))) THEN MathTrunc(x)
  ELSE Minus(MathTrunc(x), Num(1))

\* the double 1.h1h2...h13 (hexadecimal) * 2^e
Double(neg, hex, e) ==
  Exact(neg,
        <<1>> \o [i \in 1..(4 * Len(hex)) |->
                    (hex[(i - 1) \div 4 + 1] \div 2^(3 - ((i - 1) % 4))) % 2],
        e - 4 * Len(hex))

\* Number.prototype.toString writes a number in exponent notation with a
\* negative exponent ('e-') when it is non-zero and below 1e-6 in magnitude
OneMillionth == Double(FALSE, <<0, 12, 6, 15, 7, 10, 0, 11, 5, 14, 13, 8, 13>>, -20)

ToStringIncludesEMinus(x) == ~IsZero(x) /\ Less(Abs(x), OneMillionth)

\* Math.cos and Math.sin of degreesToRadians(angle), for the right angles
CosTable ==
  [a \in {0, 90, 180, 270} |->
     CASE a = 0   -> Num(1)
       [] a = 90  -> Double(FALSE, <<1, 10, 6, 2, 6, 3, 3, 1, 4, 5, 12, 0, 7>>, -54)
       [] a = 180 -> Num(-1)
       [] a = 270 -> Double(TRUE, <<10, 7, 9, 3, 9, 4, 12, 9, 14, 8, 10, 0, 10>>, -53)]

SinTable ==
  [a \in {0, 90, 180, 270} |->
     CASE a = 0   -> Num(0)
       [] a = 90  -> Num(1)
       [] a = 180 -> Double(FALSE, <<1, 10, 6, 2, 6, 3, 3, 1, 4, 5, 12, 0, 7>>, -53)
       [] a = 270 -> Num(-1)]

Cos(angle) == CosTable[IntOf(angle)]

Sin(angle) == SinTable[IntOf(angle)]

(***************************************************************************)
(* Vector2D                                                                *)
(***************************************************************************)
Undefined == [undefined |-> TRUE]

Null == [null |-> TRUE]

Infinity == [infinity |-> TRUE]

Vector2D(x, y) == [x |-> x, y |-> y]

Vec(i, j) == Vector2D(Num(i), Num(j))

add(this, vector) == Vector2D(Plus(this.x, vector.x), Plus(this.y, vector.y))

\* a faulty subtract: the receiver is taken from the operand
subtractSwapped(this, vector) ==
  Vector2D(Minus(vector.x, this.x), Minus(vector.y, this.y))

subtract(this, vector) ==
  Vector2D(Minus(this.x, vector.x), Minus(this.y, vector.y))

\* scalar2 defaults to scalar when it is not passed (or passed undefined);
\* a null scalar2 is kept and counts as 0 in the arithmetic
ScalarY(scalar, scalar2) ==
  IF scalar2 = Undefined THEN scalar
  ELSE IF scalar2 = Null THEN Num(0)
  ELSE scalar2

addScalar(this, scalar, scalar2) ==
  Vector2D(Plus(this.x, scalar), Plus(this.y, ScalarY(scalar, scalar2)))

multiplyScalar(this, scalar, scalar2) ==
  Vector2D(Times(this.x, scalar), Times(this.y, ScalarY(scalar, scalar2)))

\* a faulty crossProduct: the sum of the two products
crossProductSum(this, vector) ==
  Plus(Times(this.x, vector.y), Times(this.y, vector.x))

crossProduct(this, vector) ==
  Minus(Times(this.x, vector.y), Times(this.y, vector.x))

\* Math.hypot(a, b) when one argument is zero: the magnitude of the other
Hypot(a, b) ==
  CASE IsZero(a) -> Abs(b)
    [] IsZero(b) -> Abs(a)

distance(this, vector) ==
  Hypot(Minus(this.x, vector.x), Minus(this.y, vector.y))

\* the coordinate rotateSelf stores: 0 for one written with 'e-'
Cleaned(new) == IF ToStringIncludesEMinus(new) THEN Num(0) ELSE new

\* rotateSelf once x, y, cos and sin are computed
Rotated(x, y, cos, sin, point) ==
  Vector2D(Cleaned(Plus(Minus(Times(x, cos), Times(y, sin)), point.x)),
           Cleaned(Plus(Plus(Times(x, sin), Times(y, cos)), point.y)))

rotateSelf(this, point, angle) ==
  Rotated(Minus(this.x, point.x), Minus(this.y, point.y),
          Cos(angle), Sin(angle), point)

\* a faulty equals: compares x with y
equalsSwapped(this, vector) == this.x = vector.y /\ this.y = vector.x

equals(this, vector) == this.x = vector.x /\ this.y = vector.y

\* a faulty copy: y is left as it was
copyX(this, vector) == Vector2D(vector.x, this.y)

copy(this, vector) == Vector2D(vector.x, vector.y)

clone(this) == Vector2D(this.x, this.y)

\* set(x, y = x): y takes x when it is not passed; a null y is stored
set(this, x, y) == Vector2D(x, IF y = Undefined THEN x ELSE y)

\* a faulty toArray: the x component twice
toArrayOfX(this) == <<this.x, this.x>>

toArray(this) == <<this.x, this.y>>

(***************************************************************************)
(* Line: a segment from start to end; end is start moved by config.length  *)
(* down the y axis and rotated about start by angle (degrees).             *)
(***************************************************************************)
\* a faulty update: the new end is measured from the old end
MovedOn(line, start) ==
  [line EXCEPT
     !.start = start,
     !.end   = rotateSelf(addScalar(line.end, Num(0), line.config.length),
                          start, line.angle)]

\* Line.update once the start point has taken the position
Moved(line, start) ==
  [line EXCEPT
     !.start = start,
     !.end   = rotateSelf(addScalar(start, Num(0), line.config.length),
                          start, line.angle)]

\* a faulty update: the end stays where it was
LineUpdateStart(line, position) ==
  [line EXCEPT !.start = copy(line.start, position)]

\* a faulty update: the stored intersectionPoint is forgotten
LineUpdateCleared(line, position) ==
  [Moved(line, copy(line.start, position)) EXCEPT
     !.intersectionPoint = Undefined]

LineUpdate(line, position) == Moved(line, copy(line.start, position))

\* new Line({ position, angle, config })
NewLine(position, angle, config) ==
  LineUpdate([start |-> Vec(0, 0), end |-> Vec(0, 0), angle |-> angle,
              config |-> config, intersectionPoint |-> Undefined],
             Vector2D(position.x, position.y))

\* the terminus of the span draw strokes: intersectionPoint ?? end
Terminus(line) ==
  IF line.intersectionPoint = Undefined \/ line.intersectionPoint = Null
  THEN line.end ELSE line.intersectionPoint

LineDraw(line) == [moveTo |-> line.start, lineTo |-> Terminus(line)]

\* every component of every difference is negative
AllNegative(differences) ==
  \A i \in 1..4 : \A j \in 1..2 : Less(differences[i][j], Num(0))

\* a faulty colinear branch: segments that touch are given a point
ColinearWithPoint(this, line, startDiff) ==
  IF \/ equals(this.start, line.start) \/ equals(this.end, line.start)
     \/ equals(this.start, line.end)   \/ equals(this.end, line.end)
  THEN [type |-> "colinear-overlapping", point |-> clone(line.start)]
  ELSE [type |-> "colinear-disjoint"]

\* the colinear branch of Line.intersection
Colinear(this, line, startDiff) ==
  IF \/ equals(this.start, line.start) \/ equals(this.end, line.start)
     \/ equals(this.start, line.end)   \/ equals(this.end, line.end)
  THEN [type |-> "colinear-overlapping"]
  ELSE IF AllNegative(<<toArray(startDiff),
                        toArray(subtract(line.start, this.end)),
                        toArray(subtract(line.end, this.start)),
                        toArray(subtract(line.end, this.end))>>)
  THEN [type |-> "colinear-joint"]
  ELSE [type |-> "colinear-disjoint"]

\* a faulty range test: the end points of the segments do not count
FallsStrictlyWithin(t, u) ==
  \A v \in {t, u} : Less(Num(0), v) /\ Less(v, Num(1))

FallsWithinLineSegment(t, u) ==
  \A v \in {t, u} : LessEq(Num(0), v) /\ LessEq(v, Num(1))

\* a faulty crossing branch: the position on the other segment is not tested
CrossingOnThis(this, endDiff, t, u) ==
  IF FallsWithinLineSegment(t, t)
  THEN [type  |-> "intersection",
        point |-> add(this.start, multiplyScalar(endDiff, t, Undefined))]
  ELSE [type |-> "no-intersection"]

\* the crossing branch of Line.intersection
Crossing(this, endDiff, t, u) ==
  IF FallsWithinLineSegment(t, u)
  THEN [type  |-> "intersection",
        point |-> add(this.start, multiplyScalar(endDiff, t, Undefined))]
  ELSE [type |-> "no-intersection"]

\* a faulty order of the tests: parallel is decided before colinear
ClassifiedParallelFirst(this, line, startDiff, endDiff, lineDiff, numerator, denominator) ==
  IF IsZero(denominator) /\ ~IsZero(crossProduct(startDiff, lineDiff))
  THEN [type |-> "parallel-non-intersecting"]
  ELSE IF IsZero(denominator)
  THEN Colinear(this, line, startDiff)
  ELSE Crossing(this, endDiff,
                Divide(crossProduct(startDiff, lineDiff), denominator),
                Divide(numerator, denominator))

Classified(this, line, startDiff, endDiff, lineDiff, numerator, denominator) ==
  IF IsZero(numerator) /\ IsZero(denominator)
  THEN Colinear(this, line, startDiff)
  ELSE IF IsZero(denominator)
  THEN [type |-> "parallel-non-intersecting"]
  ELSE Crossing(this, endDiff,
                Divide(crossProduct(startDiff, lineDiff), denominator),
                Divide(numerator, denominator))

Differences(this, line, startDiff, endDiff, lineDiff) ==
  Classified(this, line, startDiff, endDiff, lineDiff,
             crossProduct(startDiff, endDiff), crossProduct(endDiff, lineDiff))

LineIntersection(this, line) ==
  Differences(this, line,
              subtract(line.start, this.start),
              subtract(this.end, this.start),
              subtract(line.end, line.start))

(***************************************************************************)
(* Rays: the bundle of rays, one Line per angle of the fan.                *)
(***************************************************************************)
\* a faulty clampBetweenRanges: the start of the new range is not added
clampFromZero(value, valueRange, newRange) ==
  Times(Divide(Minus(value, valueRange[1]),
               Minus(valueRange[2], valueRange[1])),
        Minus(newRange[2], newRange[1]))

clampBetweenRanges(value, valueRange, newRange) ==
  Plus(Times(Divide(Minus(value, valueRange[1]),
                    Minus(valueRange[2], valueRange[1])),
             Minus(newRange[2], newRange[1])),
       newRange[1])

\* config.rays
RaysConfig ==
  [amount |-> 500, angle |-> <<0, 360>>,
   singleLine |-> [length |-> Num(400), lineWidth |-> Num(1),
                   gradient |-> ("0" :> "lightgray" @@ "0.1" :> "darkgray"
                                   @@ "1" :> "transparent")]]

\* the bundle that is followed: config.rays with fewer and shorter rays, the
\* rays at the right angles
Amount == 4

Length == 3

BundleConfig ==
  [RaysConfig EXCEPT !.amount = Amount, !.singleLine.length = Num(Length)]

\* the angles Rays.#init gives the Lines it creates
RayAngles(config) ==
  [i \in 1..config.amount |->
     clampBetweenRanges(Num(i - 1), <<Num(0), Num(config.amount)>>,
                        <<Num(config.angle[1]), Num(config.angle[2])>>)]

\* Rays.#init
RaysInit(config) ==
  [i \in 1..config.amount |->
     NewLine(Vec(0, 0), RayAngles(config)[i], config.singleLine)]

RaysDraw(lines) == [i \in DOMAIN lines |-> LineDraw(lines[i])]

RaysUpdate(lines, position) ==
  [i \in DOMAIN lines |-> LineUpdate(lines[i], position)]

\* isArray(lines) ? lines : [lines]
Obstacles(arg) == IF arg.isArray THEN arg.value ELSE <<arg.value>>

\* a faulty loop body: the ray is never clipped
ScannedUnclipped(line, closest, record) ==
  [closest |-> closest, record |-> record,
   intersectionPoint |-> clone(line.end)]

\* closest and record after one more obstacle, and the intersectionPoint
\* that is assigned at the end of the loop body
Scanned(line, closest, record) ==
  [closest |-> closest, record |-> record,
   intersectionPoint |-> IF closest # Null THEN closest ELSE clone(line.end)]

\* a faulty comparison: every point found replaces the closest so far
NearerLast(line, prev, point, dist) == Scanned(line, point, dist)

\* a faulty comparison: the first point found is kept
NearerFirst(line, prev, point, dist) ==
  IF prev.record = Infinity
  THEN Scanned(line, point, dist)
  ELSE Scanned(line, prev.closest, prev.record)

\* the obstacle gave a point at this distance
Nearer(line, prev, point, dist) ==
  IF prev.record = Infinity \/ Less(dist, prev.record)
  THEN Scanned(line, point, dist)
  ELSE Scanned(line, prev.closest, prev.record)

ScanStep(line, prev, intersection) ==
  IF "point" \in DOMAIN intersection
  THEN Nearer(line, prev, intersection.point,
              distance(line.start, intersection.point))
  ELSE Scanned(line, prev.closest, prev.record)

\* the loop over the obstacles, for one ray: the state after the first i
RECURSIVE Scan(_, _, _)
Scan(line, obstacles, i) ==
  IF i = 0
  THEN [closest |-> Null, record |-> Infinity,
        intersectionPoint |-> line.intersectionPoint]
  ELSE ScanStep(line, Scan(line, obstacles, i - 1),
                LineIntersection(line, obstacles[i]))

\* a faulty loop: only the first obstacle is scanned
IntersectedFirst(lines, obstacles) ==
  [i \in DOMAIN lines |->
     [lines[i] EXCEPT !.intersectionPoint =
        Scan(lines[i], obstacles,
             IF obstacles = <<>> THEN 0 ELSE 1).intersectionPoint]]

\* a faulty loop: the end of the ray is moved to the point found
IntersectedMovingEnd(lines, obstacles) ==
  [i \in DOMAIN lines |->
     [lines[i] EXCEPT
        !.intersectionPoint =
           Scan(lines[i], obstacles, Len(obstacles)).intersectionPoint,
        !.end = IF obstacles = <<>> THEN @
                ELSE Scan(lines[i], obstacles, Len(obstacles)).intersectionPoint]]

Intersected(lines, obstacles) ==
  [i \in DOMAIN lines |->
     [lines[i] EXCEPT !.intersectionPoint =
        Scan(lines[i], obstacles, Len(obstacles)).intersectionPoint]]

RaysIntersect(lines, arg) == Intersected(lines, Obstacles(arg))

(***************************************************************************)
(* The scene and the calls made on the bundle.                             *)
(***************************************************************************)
MinCoord == 16
MaxCoord == 17
MaxLines == 2

Coords == MinCoord..MaxCoord

Positions == {Vec(i, j) : i \in Coords, j \in Coords}

\* the obstacles of the scene: horizontal Lines, one row above the positions
ObstaclePool ==
  {NewLine(addScalar(p, Num(0), Num(1)), Num(270), [length |-> Num(2)]) :
     p \in Positions}

Scenes ==
  UNION {[1..n -> ObstaclePool] : n \in 0..MaxLines}

(***************************************************************************)
(* Pairs of segments for Line.intersection: every pair with end points on  *)
(* a small integer grid, and the pairs the documentation gives.            *)
(***************************************************************************)
GridMax == 3

Segment(a, b, c, d) == [start |-> Vec(a, b), end |-> Vec(c, d)]

GridPoints == {Vec(i, j) : i \in 0..GridMax, j \in 0..GridMax}

GridSegments == [start : GridPoints, end : GridPoints]

ExamplePairs ==
  {[this |-> Segment(0, 0, 10, 10), line |-> Segment(0, 10, 10, 0)],
   [this |-> Segment(0, 0, 10, 0),  line |-> Segment(0, 5, 10, 5)],
   [this |-> Segment(0, 0, 10, 0),  line |-> Segment(10, 0, 20, 0)]}

Pairs == [this : GridSegments, line : GridSegments] \cup ExamplePairs

VARIABLES rays, lines, call, pair, result

vars == <<rays, lines, call, pair, result>>

NoPair == [this |-> Undefined, line |-> Undefined]

Init ==
  /\ rays = RaysInit(BundleConfig)
  /\ lines \in Scenes
  /\ call = [op |-> "new"]
  /\ pair = NoPair
  /\ result = Undefined

Update(position) ==
  /\ rays' = RaysUpdate(rays, position)
  /\ call' = [op |-> "update", position |-> position]
  /\ UNCHANGED <<lines, pair, result>>

Intersect(arg) ==
  /\ rays' = RaysIntersect(rays, arg)
  /\ call' = [op |-> "intersect", obstacles |-> Obstacles(arg)]
  /\ UNCHANGED <<lines, pair, result>>

Draw ==
  /\ call' = [op |-> "draw", strokes |-> RaysDraw(rays)]
  /\ UNCHANGED <<rays, lines, pair, result>>

\* the public methods of Rays, called on the bundle one at a time in any
\* order; intersect is called with an array of Lines or with one Line
Next ==
  \/ \E position \in Positions : Update(position)
  \/ \E array \in {lines, <<>>} : Intersect([isArray |-> TRUE, value |-> array])
  \/ \E i \in DOMAIN lines : Intersect([isArray |-> FALSE, value |-> lines[i]])
  \/ Draw

Spec == Init /\ [][Next]_vars

\* Line.intersection on its own: pair.this.intersection(pair.line)
InitLine ==
  /\ rays = <<>>
  /\ lines = <<>>
  /\ call = [op |-> "new"]
  /\ pair \in Pairs
  /\ result = Undefined

Intersection ==
  /\ result' = LineIntersection(pair.this, pair.line)
  /\ UNCHANGED <<rays, lines, call, pair>>

NextLine == Intersection

SpecLine == InitLine /\ [][NextLine]_vars

(***************************************************************************)
(* The calls of the public interface of Rays and Line, on the bundle and   *)
(* on one Line of the scene, in any order: the methods, the setter of      *)
(* intersectionPoint, and set on a vector of the Line.  The getters start, *)
(* end and intersectionPoint hand out the vectors the Line holds, and the  *)
(* setter stores the vector it is given, which may be the start or the end *)
(* vector of the Line itself: result.shared[i] names the vector of Line i  *)
(* that its intersectionPoint is, or "none".  result.touched is the set of *)
(* the Lines whose start or end vector was set since their last update.    *)
(***************************************************************************)
\* the origins the bundle is moved to
CallPositions == {Vec(MinCoord, MinCoord), Vec(MaxCoord, MinCoord)}

\* the positions a Line of the scene is moved to
ObstaclePositions == {addScalar(p, Num(0), Num(1)) : p \in CallPositions}

\* Line.update on a Line whose intersectionPoint is the vector `shared` of
\* it: the start vector takes the position, the end is a new vector
LineUpdated(line, shared, position) ==
  IF shared = "start"
  THEN [LineUpdate(line, position) EXCEPT
          !.intersectionPoint = LineUpdate(line, position).start]
  ELSE LineUpdate(line, position)

\* what the intersectionPoint is after update
SharedAfterUpdate(shared) == IF shared = "end" THEN "none" ELSE shared

\* lines[i].update(position)
LineUpdateCall(i, position) ==
  /\ lines' = [lines EXCEPT
                 ![i] = LineUpdated(lines[i], result.shared[i], position)]
  /\ call' = [op |-> "Line.update", line |-> i, position |-> position]
  /\ result' = [touched |-> result.touched \ {i},
                shared |-> [result.shared EXCEPT ![i] = SharedAfterUpdate(@)]]
  /\ UNCHANGED <<rays, pair>>

\* lines[call.line].update(call.position) once more
LineUpdateAgain ==
  /\ call.op \in {"Line.update", "Line.update again"}
  /\ lines' = [lines EXCEPT
                 ![call.line] = LineUpdated(lines[call.line],
                                            result.shared[call.line],
                                            call.position)]
  /\ call' = [call EXCEPT !.op = "Line.update again"]
  /\ result' = [touched |-> result.touched \ {call.line},
                shared |-> [result.shared EXCEPT
                              ![call.line] = SharedAfterUpdate(@)]]
  /\ UNCHANGED <<rays, pair>>

\* rays.update(call.position) once more
UpdateAgain ==
  /\ call.op \in {"update", "update again"}
  /\ rays' = RaysUpdate(rays, call.position)
  /\ call' = [call EXCEPT !.op = "update again"]
  /\ UNCHANGED <<lines, pair, result>>

\* rays[i].intersection(lines[j])
LineIntersectionCall(i, j) ==
  /\ call' = [op |-> "Line.intersection", this |-> i, line |-> j,
              returns |-> LineIntersection(rays[i], lines[j])]
  /\ UNCHANGED <<rays, lines, pair, result>>

\* what the setter is given: a vector of the caller's, the start or the end
\* vector of the Line itself, or undefined
SetterArgs == {"new", "start", "end", "undefined"}

\* the point of the caller's vector, and the point set is called with
NewPoint == Vec(MaxCoord + 1, MaxCoord + 1)

SetPoint == Vec(MaxCoord + 1, MaxCoord + 2)

\* the value of the vector the setter is given
SetterValue(line, arg) ==
  CASE arg = "new" -> NewPoint
    [] arg = "start" -> line.start
    [] arg = "end" -> line.end
    [] arg = "undefined" -> Undefined

\* lines[i].intersectionPoint = the vector: the Line stores the vector
\* itself, not a copy
LineSetIntersectionPoint(i, arg) ==
  /\ lines' = [lines EXCEPT
                 ![i].intersectionPoint = SetterValue(lines[i], arg)]
  /\ call' = [op |-> "Line.intersectionPoint =", line |-> i, vector |-> arg]
  /\ result' = [result EXCEPT
                  !.shared[i] = IF arg \in {"start", "end"} THEN arg
                                ELSE "none"]
  /\ UNCHANGED <<rays, pair>>

\* the vector of the Line that lines[i][field] is: its start, its end, or
\* "other" for an intersectionPoint that is neither
Held(i, field) ==
  IF field # "intersectionPoint" THEN field
  ELSE IF result.shared[i] = "none" THEN "other"
  ELSE result.shared[i]

\* the Line after its vector `held` took the point; an intersectionPoint
\* that is this vector has taken it too
LineWithVector(line, shared, held, point) ==
  CASE held = "other" -> [line EXCEPT !.intersectionPoint = point]
    [] held # "other" /\ shared = held ->
         [line EXCEPT ![held] = point, !.intersectionPoint = point]
    [] OTHER -> [line EXCEPT ![held] = point]

\* lines[i].start.set(x, y), lines[i].end.set(x, y) or
\* lines[i].intersectionPoint.set(x, y), the last also for a caller who
\* kept the vector given to the setter and calls set on it; with no
\* intersectionPoint stored the call throws a TypeError
LineVectorSet(i, field, point) ==
  /\ lines' =
       IF lines[i][field] = Undefined THEN lines
       ELSE [lines EXCEPT
               ![i] = LineWithVector(lines[i], result.shared[i], Held(i, field),
                                     set(lines[i][field], point.x, point.y))]
  /\ call' = [op |-> "Vector2D.set", line |-> i, field |-> field,
              point |-> point, threw |-> lines[i][field] = Undefined]
  /\ result' =
       IF lines[i][field] # Undefined /\ Held(i, field) # "other"
       THEN [result EXCEPT !.touched = @ \cup {i}]
       ELSE result
  /\ UNCHANGED <<rays, pair>>

NextCalls ==
  \/ \E position \in CallPositions : Update(position)
  \/ UpdateAgain
  \/ Intersect([isArray |-> TRUE, value |-> lines])
  \/ Draw
  \/ \E i \in DOMAIN lines : \E position \in ObstaclePositions :
        LineUpdateCall(i, position)
  \/ LineUpdateAgain
  \/ \E i \in DOMAIN rays : \E j \in DOMAIN lines : LineIntersectionCall(i, j)
  \/ \E i \in DOMAIN lines : \E arg \in SetterArgs :
        LineSetIntersectionPoint(i, arg)
  \/ \E i \in DOMAIN lines :
        \E field \in {"start", "end", "intersectionPoint"} :
           LineVectorSet(i, field, SetPoint)

\* the bundle and a scene of one Line
InitCalls ==
  /\ rays = RaysInit(BundleConfig)
  /\ lines \in {<<NewLine(p, Num(270), [length |-> Num(2)])>> :
                  p \in ObstaclePositions}
  /\ call = [op |-> "new"]
  /\ pair = NoPair
  /\ result = [touched |-> {}, shared |-> <<"none">>]

SpecCalls == InitCalls /\ [][NextCalls]_vars

(***************************************************************************)
(* The bundle inside a square of four Lines.                               *)
(***************************************************************************)
\* the four sides of the square with its lower corner at (x, y)
Square(x, y, side) ==
  <<NewLine(Vec(x, y), Num(270), [length |-> Num(side)]),
    NewLine(Vec(x + side, y + side), Num(90), [length |-> Num(side)]),
    NewLine(Vec(x, y), Num(0), [length |-> Num(side)]),
    NewLine(Vec(x + side, y), Num(0), [length |-> Num(side)])>>

\* the enclosures: a square, the length of the rays, the origins
Enclosures ==
  {[square |-> Square(0, 0, 12), length |-> 49,
    origins |-> {Vec(10, 8), Vec(11, 8)}],
   [square |-> Square(15, 15, 3), length |-> 3, origins |-> Positions]}

Origins(square) ==
  UNION {e.origins : e \in {f \in Enclosures : f.square = square}}

InitSquare ==
  /\ \E e \in Enclosures :
        /\ rays = RaysInit([BundleConfig EXCEPT
                              !.singleLine.length = Num(e.length)])
        /\ lines = e.square
  /\ call = [op |-> "new"]
  /\ pair = NoPair
  /\ result = Undefined

NextSquare ==
  \/ \E position \in Origins(lines) : Update(position)
  \/ \E array \in {lines, <<>>} : Intersect([isArray |-> TRUE, value |-> array])
  \/ \E i \in DOMAIN lines : Intersect([isArray |-> FALSE, value |-> lines[i]])
  \/ Draw

SpecSquare == InitSquare /\ [][NextSquare]_vars

(***************************************************************************)
(* A long bundle and obstacles across and along the ray at angle 0: the    *)
(* length of the rays is such that the hits are rounded.                   *)
(***************************************************************************)
SpanLength == 29

\* the origins the bundle is moved to
SpanOrigins == {Vec(0, 0), Vec(1, 0)}

\* three obstacles across the rays at angle 0, the last behind the others,
\* and one along the ray at angle 0 from the second origin
SpanPool ==
  {NewLine(Vec(-1, 15), Num(270), [length |-> Num(2)]),
   NewLine(Vec(-1, 15), Num(270), [length |-> Num(4)]),
   NewLine(Vec(-1, 20), Num(270), [length |-> Num(4)]),
   NewLine(Vec(1, 10), Num(0), [length |-> Num(2)])}

SpanScenes == UNION {[1..n -> SpanPool] : n \in 1..MaxLines}

InitSpan ==
  /\ rays = RaysInit([BundleConfig EXCEPT
                        !.singleLine.length = Num(SpanLength)])
  /\ lines \in SpanScenes
  /\ call = [op |-> "new"]
  /\ pair = NoPair
  /\ result = Undefined

NextSpan ==
  \/ \E position \in SpanOrigins : Update(position)
  \/ Intersect([isArray |-> TRUE, value |-> lines])
  \/ \E i \in DOMAIN lines : Intersect([isArray |-> FALSE, value |-> lines[i]])
  \/ Draw

SpecSpan == InitSpan /\ [][NextSpan]_vars

(***************************************************************************)
(* The angles of a bundle, for the amounts and the angle ranges of a small *)
(* set of configurations.                                                  *)
(***************************************************************************)
MaxAmount == 6

AngleEnds == {0, 7, 10, 90, 360}

AngleConfigs ==
  {[amount |-> n, angle |-> <<a, b>>, singleLine |-> BundleConfig.singleLine] :
     n \in 1..MaxAmount, a \in AngleEnds, b \in AngleEnds}

InitAngles ==
  /\ rays = <<>>
  /\ lines = <<>>
  /\ call \in {[op |-> "config", config |-> c] : c \in AngleConfigs}
  /\ pair = NoPair
  /\ result = Undefined

\* new Rays({ config }): the angles of the Lines that #init creates
NewRays ==
  /\ call.op = "config"
  /\ call' = [call EXCEPT !.op = "new Rays"]
  /\ result' = [angles |-> RayAngles(call.config)]
  /\ UNCHANGED <<rays, lines, pair>>

NextAngles == NewRays

SpecAngles == InitAngles /\ [][NextAngles]_vars

(***************************************************************************)
(* Vector2D methods as they are called: the values a caller can pass, the  *)
(* type check, the pure forms and the *Self forms.                         *)
(***************************************************************************)
NaN == [nan |-> TRUE]

NegativeInfinity == [negativeInfinity |-> TRUE]

\* a value of type string, and an object with x and y that is no Vector2D
String == [string |-> TRUE]

PlainObject == [x |-> Num(1), y |-> Num(2), plain |-> TRUE]

\* the argument that is the receiver itself, as in a.addSelf(a)
This == [this |-> TRUE]

Arg(this, value) == IF value = This THEN this ELSE value

\* typeof value === 'number' && isFinite(value) && !isNaN(value)
isNumber(value) ==
  DOMAIN value \in {{"neg", "int", "frac"}, {"neg", "bits", "exp"}}

isNil(value) == value = Null \/ value = Undefined

\* a faulty #typeCheck: any object with x and y passes for a Vector
typeCheckLoose(expected, received) ==
  CASE expected = "Vector" -> ~({"x", "y"} \subseteq DOMAIN received)
    [] expected = "number" -> ~isNumber(received)
    [] expected = "number?" -> ~isNil(received) /\ ~isNumber(received)

\* #typeCheck(expected, received): TRUE when it throws the TypeError
typeCheck(expected, received) ==
  CASE expected = "Vector" -> DOMAIN received # {"x", "y"}
    [] expected = "number" -> ~isNumber(received)
    [] expected = "number?" -> ~isNil(received) /\ ~isNumber(received)

\* x / y, a zero divisor included
Over(x, y) ==
  IF ~IsZero(y) THEN Divide(x, y)
  ELSE IF IsZero(x) THEN NaN
  ELSE IF x.neg THEN NegativeInfinity
  ELSE Infinity

MathMin(a, b) == IF Less(b, a) THEN b ELSE a

MathMax(a, b) == IF Less(a, b) THEN b ELSE a

multiply(this, vector) ==
  Vector2D(Times(this.x, vector.x), Times(this.y, vector.y))

divide(this, vector) ==
  Vector2D(Over(this.x, vector.x), Over(this.y, vector.y))

clamp(this, minimum, maximum) ==
  Vector2D(MathMax(MathMin(this.x, maximum.x), minimum.x),
           MathMax(MathMin(this.y, maximum.y), minimum.y))

subtractScalar(this, scalar, scalar2) ==
  Vector2D(Minus(this.x, scalar), Minus(this.y, ScalarY(scalar, scalar2)))

divideScalar(this, scalar, scalar2) ==
  Vector2D(Over(this.x, scalar), Over(this.y, ScalarY(scalar, scalar2)))

clampScalar(this, minimum, maximum) ==
  Vector2D(MathMax(MathMin(this.x, maximum), minimum),
           MathMax(MathMin(this.y, maximum), minimum))

invert(this) == Vector2D(Times(this.x, Num(-1)), Times(this.y, Num(-1)))

\* a faulty normalize: divides by the magnitude even when it is 0
normalizeUnguarded(this) ==
  Vector2D(Over(this.x, Hypot(this.x, this.y)),
           Over(this.y, Hypot(this.x, this.y)))

normalize(this) ==
  IF IsZero(Hypot(this.x, this.y)) THEN Vector2D(Num(0), Num(0))
  ELSE Vector2D(Over(this.x, Hypot(this.x, this.y)),
                Over(this.y, Hypot(this.x, this.y)))

\* this.#x op= vector.x, then this.#y op= vector.y
AssignX(Op(_, _), this, vector) ==
  [this EXCEPT !.x = Op(this.x, Arg(this, vector).x)]

AssignY(Op(_, _), this, vector) ==
  [this EXCEPT !.y = Op(this.y, Arg(this, vector).y)]

addSelf(this, vector) == AssignY(Plus, AssignX(Plus, this, vector), vector)

subtractSelf(this, vector) ==
  AssignY(Minus, AssignX(Minus, this, vector), vector)

\* a faulty multiplySelf: y is left as it was
multiplySelfX(this, vector) == AssignX(Times, this, vector)

multiplySelf(this, vector) ==
  AssignY(Times, AssignX(Times, this, vector), vector)

divideSelf(this, vector) == AssignY(Over, AssignX(Over, this, vector), vector)

\* newX and newY are computed before either is stored
clampSelf(this, minimum, maximum) ==
  [this EXCEPT
     !.x = MathMax(MathMin(this.x, Arg(this, maximum).x), Arg(this, minimum).x),
     !.y = MathMax(MathMin(this.y, Arg(this, maximum).y), Arg(this, minimum).y)]

addScalarSelf(this, scalar, scalar2) ==
  [this EXCEPT !.x = Plus(this.x, scalar),
               !.y = Plus(this.y, ScalarY(scalar, scalar2))]

subtractScalarSelf(this, scalar, scalar2) ==
  [this EXCEPT !.x = Minus(this.x, scalar),
               !.y = Minus(this.y, ScalarY(scalar, scalar2))]

multiplyScalarSelf(this, scalar, scalar2) ==
  [this EXCEPT !.x = Times(this.x, scalar),
               !.y = Times(this.y, ScalarY(scalar, scalar2))]

divideScalarSelf(this, scalar, scalar2) ==
  [this EXCEPT !.x = Over(this.x, scalar),
               !.y = Over(this.y, ScalarY(scalar, scalar2))]

clampScalarSelf(this, minimum, maximum) ==
  [this EXCEPT !.x = MathMax(MathMin(this.x, maximum), minimum),
               !.y = MathMax(MathMin(this.y, maximum), minimum)]

invertSelf(this) ==
  [this EXCEPT !.x = Times(this.x, Num(-1)), !.y = Times(this.y, Num(-1))]

\* the magnitude is computed once, before x and y are divided
normalizeSelf(this) ==
  IF IsZero(Hypot(this.x, this.y)) THEN this
  ELSE [this EXCEPT !.x = Over(this.x, Hypot(this.x, this.y)),
                    !.y = Over(this.y, Hypot(this.x, this.y))]

\* set x(value), set y(value)
setX(this, value) == [this EXCEPT !.x = value]

setY(this, value) == [this EXCEPT !.y = value]

dotProduct(this, vector) ==
  Plus(Times(this.x, vector.x), Times(this.y, vector.y))

\* this.#x += (vector.x - this.#x) * alpha, then the same for y
lerp(this, vector, alpha) ==
  [this EXCEPT
     !.x = Plus(this.x, Times(Minus(Arg(this, vector).x, this.x), alpha)),
     !.y = Plus(this.y, Times(Minus(Arg(this, vector).y, this.y), alpha))]

\* the pure form computes what rotateSelf stores
rotate(this, point, angle) == rotateSelf(this, point, angle)

\* 10 ** decimalPlaces, for 0 (also when it is null) to 9 decimal places
Factor(decimalPlaces) ==
  IF isNil(decimalPlaces) THEN Num(1) ELSE Num(10 ^ IntOf(decimalPlaces))

\* Math.trunc(this.#x * factor) / factor, and the same for y
toFixed(this, decimalPlaces) ==
  Vector2D(Divide(MathTrunc(Times(this.x, Factor(decimalPlaces))),
                  Factor(decimalPlaces)),
           Divide(MathTrunc(Times(this.y, Factor(decimalPlaces))),
                  Factor(decimalPlaces)))

ceil(this, decimalPlaces) ==
  Vector2D(Divide(MathCeil(Times(this.x, Factor(decimalPlaces))),
                  Factor(decimalPlaces)),
           Divide(MathCeil(Times(this.y, Factor(decimalPlaces))),
                  Factor(decimalPlaces)))

floor(this, decimalPlaces) ==
  Vector2D(Divide(MathFloor(Times(this.x, Factor(decimalPlaces))),
                  Factor(decimalPlaces)),
           Divide(MathFloor(Times(this.y, Factor(decimalPlaces))),
                  Factor(decimalPlaces)))

round(this, decimalPlaces) ==
  Vector2D(Divide(MathRound(Times(this.x, Factor(decimalPlaces))),
                  Factor(decimalPlaces)),
           Divide(MathRound(Times(this.y, Factor(decimalPlaces))),
                  Factor(decimalPlaces)))

\* if (this.#x > vector.x) this.#x = vector.x, then the same for y
min(this, vector) ==
  [this EXCEPT
     !.x = IF Less(Arg(this, vector).x, this.x) THEN Arg(this, vector).x ELSE @,
     !.y = IF Less(Arg(this, vector).y, this.y) THEN Arg(this, vector).y ELSE @]

max(this, vector) ==
  [this EXCEPT
     !.x = IF Less(this.x, Arg(this, vector).x) THEN Arg(this, vector).x ELSE @,
     !.y = IF Less(this.y, Arg(this, vector).y) THEN Arg(this, vector).y ELSE @]

clear(this) == Vector2D(Num(0), Num(0))

\* the methods by what they check: one Vector, two Vectors, a number and an
\* optional number, two numbers, nothing
VectorMethods ==
  {"add", "addSelf", "subtract", "subtractSelf",
   "multiply", "multiplySelf", "divide", "divideSelf"}

ScalarMethods ==
  {"addScalar", "addScalarSelf", "subtractScalar", "subtractScalarSelf",
   "multiplyScalar", "multiplyScalarSelf", "divideScalar", "divideScalarSelf"}

NullaryMethods == {"invert", "invertSelf", "normalize", "normalizeSelf"}

\* the other members: those that check one Vector, a Vector and a number,
\* the number of decimal places, and those that check nothing
OperandMethods ==
  {"min", "max", "copy", "equals", "dotProduct", "crossProduct", "distance"}

PointMethods == {"lerp", "rotate", "rotateSelf"}

PlacesMethods == {"toFixed", "ceil", "floor", "round"}

Setters == {"set x", "set y"}

Methods ==
  VectorMethods \cup ScalarMethods \cup NullaryMethods
    \cup {"clamp", "clampSelf", "clampScalar", "clampScalarSelf"}
    \cup OperandMethods \cup PointMethods \cup PlacesMethods \cup Setters
    \cup {"set", "clear", "clone"}

PureMethods ==
  {"add", "subtract", "multiply", "divide", "clamp", "addScalar",
   "subtractScalar", "multiplyScalar", "divideScalar", "clampScalar",
   "invert", "normalize"}

\* the #typeCheck calls at the head of a method: TRUE when one of them throws
Rejected(method, this, a, b) ==
  CASE method \in VectorMethods -> typeCheck("Vector", Arg(this, a))
    [] method \in {"clamp", "clampSelf"} ->
         typeCheck("Vector", Arg(this, a)) \/ typeCheck("Vector", Arg(this, b))
    [] method \in ScalarMethods ->
         typeCheck("number", a) \/ typeCheck("number?", b)
    [] method \in {"clampScalar", "clampScalarSelf"} ->
         typeCheck("number", a) \/ typeCheck("number", b)
    [] method \in NullaryMethods \cup {"clear", "clone"} -> FALSE
    [] method \in OperandMethods -> typeCheck("Vector", Arg(this, a))
    [] method \in PointMethods ->
         typeCheck("Vector", Arg(this, a)) \/ typeCheck("number", b)
    [] method = "toFixed" -> typeCheck("number", a)
    [] method \in PlacesMethods \ {"toFixed"} -> typeCheck("number?", a)
    [] method \in Setters -> typeCheck("number", a)
    [] method = "set" -> typeCheck("number", a) \/ typeCheck("number?", b)

\* the methods that return something new and leave the receiver alone
ReturningMethods ==
  PureMethods \cup {"rotate", "clone", "equals", "dotProduct", "crossProduct",
                    "distance"}

\* the new Vector2D a pure form returns
Returned(method, this, a, b) ==
  CASE method = "add" -> add(this, a)
    [] method = "subtract" -> subtract(this, a)
    [] method = "multiply" -> multiply(this, a)
    [] method = "divide" -> divide(this, a)
    [] method = "clamp" -> clamp(this, a, b)
    [] method = "addScalar" -> addScalar(this, a, b)
    [] method = "subtractScalar" -> subtractScalar(this, a, b)
    [] method = "multiplyScalar" -> multiplyScalar(this, a, b)
    [] method = "divideScalar" -> divideScalar(this, a, b)
    [] method = "clampScalar" -> clampScalar(this, a, b)
    [] method = "invert" -> invert(this)
    [] method = "normalize" -> normalize(this)
    [] method = "rotate" -> rotate(this, a, b)
    [] method = "clone" -> clone(this)
    [] method = "equals" -> equals(this, a)
    [] method = "dotProduct" -> dotProduct(this, a)
    [] method = "crossProduct" -> crossProduct(this, a)
    [] method = "distance" -> distance(this, a)

\* the receiver after a *Self form
Mutated(method, this, a, b) ==
  CASE method = "addSelf" -> addSelf(this, a)
    [] method = "subtractSelf" -> subtractSelf(this, a)
    [] method = "multiplySelf" -> multiplySelf(this, a)
    [] method = "divideSelf" -> divideSelf(this, a)
    [] method = "clampSelf" -> clampSelf(this, a, b)
    [] method = "addScalarSelf" -> addScalarSelf(this, a, b)
    [] method = "subtractScalarSelf" -> subtractScalarSelf(this, a, b)
    [] method = "multiplyScalarSelf" -> multiplyScalarSelf(this, a, b)
    [] method = "divideScalarSelf" -> divideScalarSelf(this, a, b)
    [] method = "clampScalarSelf" -> clampScalarSelf(this, a, b)
    [] method = "invertSelf" -> invertSelf(this)
    [] method = "normalizeSelf" -> normalizeSelf(this)
    [] method = "set x" -> setX(this, a)
    [] method = "set y" -> setY(this, a)
    [] method = "set" -> set(this, a, b)
    [] method = "lerp" -> lerp(this, a, b)
    [] method = "rotateSelf" -> rotateSelf(this, Arg(this, a), b)
    [] method = "toFixed" -> toFixed(this, a)
    [] method = "ceil" -> ceil(this, a)
    [] method = "floor" -> floor(this, a)
    [] method = "round" -> round(this, a)
    [] method = "min" -> min(this, a)
    [] method = "max" -> max(this, a)
    [] method = "clear" -> clear(this)
    [] method = "copy" -> copy(this, Arg(this, a))

\* the arguments after a call that left the receiver as `this`
After(this, args) == [i \in DOMAIN args |-> Arg(this, args[i])]

\* this.method(a, b): the receiver and the arguments afterwards, whether it
\* threw, what it returned, and whether that is the receiver itself; an
\* assignment to x or y is the value assigned
Invoked(method, this, args) ==
  IF Rejected(method, this, args[1], args[2])
  THEN [this |-> this, args |-> After(this, args), threw |-> TRUE,
        returns |-> Undefined, same |-> FALSE]
  ELSE IF method \in ReturningMethods
  THEN [this |-> this, args |-> After(this, args), threw |-> FALSE,
        returns |-> Returned(method, this, Arg(this, args[1]),
                             Arg(this, args[2])),
        same |-> FALSE]
  ELSE IF method \in Setters
  THEN [this |-> Mutated(method, this, args[1], args[2]),
        args |-> args, threw |-> FALSE, returns |-> args[1], same |-> FALSE]
  ELSE [this |-> Mutated(method, this, args[1], args[2]),
        args |-> After(Mutated(method, this, args[1], args[2]), args),
        threw |-> FALSE,
        returns |-> Mutated(method, this, args[1], args[2]),
        same |-> TRUE]

(***************************************************************************)
(* One call of a Vector2D method on a receiver, and a.add(b).subtract(b).  *)
(***************************************************************************)
Tenth == Double(FALSE, <<9, 9, 9, 9, 9, 9, 9, 9, 9, 9, 9, 9, 10>>, -4)

\* the vector (i / 4, j / 4)
Quarters(i, j) == Vector2D(Divide(Num(i), Num(4)), Divide(Num(j), Num(4)))

Receivers ==
  {Vec(0, 0), Vec(3, 0), Vec(0, -4), Vec(2, -3), Vector2D(Tenth, Num(1)),
   Quarters(15, -17), Quarters(10, -10)}

VectorArgs ==
  {Vec(0, 0), Vec(1, 2), Vec(-2, 0), Vector2D(Num(1), Tenth), This,
   Undefined, Null, Num(5), PlainObject, String}

ScalarArgs ==
  {Num(0), Num(2), Num(-3), Tenth, Undefined, Null, NaN, Infinity, String}

\* the argument lists a method is called with; the decimal places are whole
\* and not negative, for which 10 ** decimalPlaces is exact, and the angles
\* are the right angles, for which the cosine and the sine are tabulated
ArgLists(method) ==
  CASE method \in VectorMethods -> {<<a, Undefined>> : a \in VectorArgs}
    [] method \in {"clamp", "clampSelf"} ->
         {<<a, b>> : a \in VectorArgs,
                     b \in {Vec(1, 2), Vec(-2, 0), This, Undefined, PlainObject}}
    [] method \in NullaryMethods \cup {"clear", "clone"} ->
         {<<Undefined, Undefined>>}
    [] method \in OperandMethods ->
         {<<a, Undefined>> : a \in VectorArgs \cup {Vec(5, -7)}}
    [] method = "lerp" ->
         {<<a, b>> : a \in {Vec(1, 2), Vec(5, -7), This, Undefined, PlainObject},
                     b \in {Num(0), Num(2), Quarters(2, 0).x, Tenth,
                             Undefined, Null, NaN, String}}
    [] method \in {"rotate", "rotateSelf"} ->
         {<<a, b>> : a \in {Vec(0, 0), Vec(1, 2), This, Undefined, PlainObject},
                     b \in {Num(0), Num(90), Num(180), Num(270),
                             Undefined, Null, String}}
    [] method \in PlacesMethods ->
         {<<a, Undefined>> :
            a \in {Num(0), Num(1), Num(2), Undefined, Null, NaN, String}}
    [] method \in Setters -> {<<a, Undefined>> : a \in ScalarArgs}
    [] OTHER -> {<<a, b>> : a \in ScalarArgs,
                            b \in {Undefined, Null, Num(0), Num(4), NaN, String}}

\* Math.hypot is modelled for a zero argument: normalize for a receiver with
\* a zero component, distance to a vector that shares x or y with it
Callable(method, this, args) ==
  /\ method \in {"normalize", "normalizeSelf"} =>
        IsZero(this.x) \/ IsZero(this.y)
  /\ method = "distance" /\ ~typeCheck("Vector", Arg(this, args[1])) =>
        \/ this.x = Arg(this, args[1]).x
        \/ this.y = Arg(this, args[1]).y

InitVector ==
  /\ rays = <<>>
  /\ lines = <<>>
  /\ call \in {c \in UNION {[op : {"vector"}, method : {m}, this : Receivers,
                             args : ArgLists(m)] : m \in Methods} :
                 Callable(c.method, c.this, c.args)}
  /\ pair = NoPair
  /\ result = Undefined

\* call.this.method(...call.args)
Invoke ==
  /\ call.op = "vector"
  /\ call' = [call EXCEPT !.op = "called"]
  /\ result' = Invoked(call.method, call.this, call.args)
  /\ UNCHANGED <<rays, lines, pair>>

\* a.add(b).subtract(b): subtract is called on the vector that add returned,
\* with the same b; a and b are what add left them unless add returned a
ThenSubtract ==
  /\ call.op = "called"
  /\ call.method = "add"
  /\ ~result.threw
  /\ call' = [call EXCEPT !.op = "chained"]
  /\ result' =
       [Invoked("subtract", result.returns, <<result.args[1], Undefined>>)
          EXCEPT !.this = IF result.same THEN @ ELSE result.this,
                 !.args = result.args]
  /\ UNCHANGED <<rays, lines, pair>>

NextVector == Invoke \/ ThenSubtract

SpecVector == InitVector /\ [][NextVector]_vars

(***************************************************************************)
(* Rays.intersect with the loop over the rays split among workers: one     *)
(* worker per ray, each running the loop over the obstacles for its ray,   *)
(* the steps of the workers interleaved in any order.                      *)
(***************************************************************************)
\* closest, record and the point assigned, after one more obstacle
Worked(line, local, obstacle) ==
  ScanStep(line, local, LineIntersection(line, obstacle))

\* the bundle was moved, clipped by the scene and moved again; every worker
\* starts with closest = null and record = Infinity
InitWorkers ==
  /\ lines \in Scenes \ {<<>>}
  /\ \E p \in Positions : \E q \in Positions :
        rays = RaysUpdate(Intersected(RaysUpdate(RaysInit(BundleConfig), p),
                                      lines), q)
  /\ call = [op |-> "intersect", before |-> rays,
             done |-> [i \in DOMAIN rays |-> 0]]
  /\ pair = NoPair
  /\ result = [i \in DOMAIN rays |-> Scan(rays[i], lines, 0)]

\* a faulty worker: closest and record of the first ray are used by all
WorkShared(i) ==
  /\ call.done[i] < Len(lines)
  /\ rays' = [rays EXCEPT ![i].intersectionPoint =
                Worked(rays[i], result[1],
                       lines[call.done[i] + 1]).intersectionPoint]
  /\ result' = [result EXCEPT
                  ![1] = Worked(rays[i], result[1], lines[call.done[i] + 1])]
  /\ call' = [call EXCEPT !.done[i] = @ + 1]
  /\ UNCHANGED <<lines, pair>>

\* the worker of ray i runs the body of the obstacle loop once more
Work(i) ==
  /\ call.done[i] < Len(lines)
  /\ rays' = [rays EXCEPT ![i].intersectionPoint =
                Worked(rays[i], result[i],
                       lines[call.done[i] + 1]).intersectionPoint]
  /\ result' = [result EXCEPT
                  ![i] = Worked(rays[i], result[i], lines[call.done[i] + 1])]
  /\ call' = [call EXCEPT !.done[i] = @ + 1]
  /\ UNCHANGED <<lines, pair>>

NextWorkers == \E i \in DOMAIN rays : Work(i)

SpecWorkers == InitWorkers /\ [][NextWorkers]_vars

(***************************************************************************)
(* The application: the animation frames and the pointermove events. Both  *)
(* handlers run to completion, so each is one step. pair holds the mouse   *)
(* vector and the rays whose start point is the mouse object itself.       *)
(***************************************************************************)
\* where the pointer can be: the origins of an enclosure, or the positions
MousePositions(scene) ==
  IF Origins(scene) = {} THEN Positions ELSE Origins(scene)

\* mouse = new Vector2D(), rays = new Rays(...), lines = createLines(...);
\* every Line makes its own start point
InitFrames ==
  /\ \/ lines \in Scenes /\ rays = RaysInit(BundleConfig)
     \/ \E e \in Enclosures :
           /\ lines = e.square
           /\ rays = RaysInit([BundleConfig EXCEPT
                                 !.singleLine.length = Num(e.length)])
  /\ call = [op |-> "new"]
  /\ pair = [mouse |-> Vec(0, 0), held |-> {}]
  /\ result = Undefined

\* a faulty frame: the rays are intersected before they are moved
AnimateIntersectFirst ==
  /\ result' = [rays |-> RaysDraw(rays), lines |-> RaysDraw(lines)]
  /\ rays' = RaysUpdate(RaysIntersect(rays, [isArray |-> TRUE, value |-> lines]),
                        pair.mouse)
  /\ call' = [op |-> "animate", position |-> pair.mouse,
              calls |-> <<"draw", "update", "intersect">>]
  /\ UNCHANGED <<lines, pair>>

\* a faulty frame: update makes the mouse object the start point of the rays
AnimateHoldingMouse ==
  /\ result' = [rays |-> RaysDraw(rays), lines |-> RaysDraw(lines)]
  /\ rays' = RaysIntersect(RaysUpdate(rays, pair.mouse),
                           [isArray |-> TRUE, value |-> lines])
  /\ call' = [op |-> "animate", position |-> pair.mouse,
              calls |-> <<"draw", "update", "intersect">>]
  /\ pair' = [pair EXCEPT !.held = DOMAIN rays]
  /\ UNCHANGED lines

\* animate(): rays.draw, rays.update(mouse), the draw of every obstacle,
\* rays.intersect(lines), in this order; result is what the frame stroked
Animate ==
  /\ result' = [rays |-> RaysDraw(rays), lines |-> RaysDraw(lines)]
  /\ rays' = RaysIntersect(RaysUpdate(rays, pair.mouse),
                           [isArray |-> TRUE, value |-> lines])
  /\ call' = [op |-> "animate", position |-> pair.mouse,
              calls |-> <<"draw", "update", "intersect">>]
  /\ UNCHANGED <<lines, pair>>

\* the pointermove listener: mouse.set(x, y); a ray whose start point is
\* the mouse object would move with it
PointerMove(position) ==
  /\ pair' = [pair EXCEPT !.mouse = Vector2D(position.x, position.y)]
  /\ rays' = [i \in DOMAIN rays |->
                IF i \in pair.held
                THEN [rays[i] EXCEPT !.start = Vector2D(position.x, position.y)]
                ELSE rays[i]]
  /\ call' = [op |-> "pointermove", position |-> position]
  /\ UNCHANGED <<lines, result>>

NextFrames ==
  \/ Animate
  \/ \E position \in MousePositions(lines) : PointerMove(position)

SpecFrames == InitFrames /\ [][NextFrames]_vars

(***************************************************************************)
(* Exact geometry on integer points, for stating the properties: nothing   *)
(* here is rounded.                                                        *)
(***************************************************************************)
Integral(v) == IsInt(v.x) /\ IsInt(v.y)

IntVec(v) == [x |-> IntOf(v.x), y |-> IntOf(v.y)]

Sub(a, b) == [x |-> a.x - b.x, y |-> a.y - b.y]

CrossInt(a, b) == a.x * b.y - a.y * b.x

Dir(seg) == Sub(IntVec(seg.end), IntVec(seg.start))

Between(seg, other) == Sub(IntVec(other.start), IntVec(seg.start))

\* r x s, (q - p) x s and (q - p) x r for p, r of this and q, s of other
RxS(this, other) == CrossInt(Dir(this), Dir(other))

QPxS(this, other) == CrossInt(Between(this, other), Dir(other))

QPxR(this, other) == CrossInt(Between(this, other), Dir(this))

\* 0 <= n / d <= 1
InUnit(n, d) == (d > 0 /\ 0 <= n /\ n <= d) \/ (d < 0 /\ d <= n /\ n <= 0)

Lower(m, n) == IF m < n THEN m ELSE n

\* the integer point v is a point of the segment
OnSegment(v, seg) ==
  /\ CrossInt(Sub(v, IntVec(seg.start)), Dir(seg)) = 0
  /\ Lower(IntVec(seg.start).x, IntVec(seg.end).x) <= v.x
  /\ v.x <= MaxOf(IntVec(seg.start).x, IntVec(seg.end).x)
  /\ Lower(IntVec(seg.start).y, IntVec(seg.end).y) <= v.y
  /\ v.y <= MaxOf(IntVec(seg.start).y, IntVec(seg.end).y)

\* the ranges the two segments cover on each axis overlap
BoxesMeet(this, other) ==
  \A c \in {"x", "y"} :
     /\ Lower(IntVec(this.start)[c], IntVec(this.end)[c])
          <= MaxOf(IntVec(other.start)[c], IntVec(other.end)[c])
     /\ Lower(IntVec(other.start)[c], IntVec(other.end)[c])
          <= MaxOf(IntVec(this.start)[c], IntVec(this.end)[c])

\* the two segments have a point in common
Meet(this, other) ==
  IF RxS(this, other) # 0
  THEN /\ InUnit(QPxS(this, other), RxS(this, other))
       /\ InUnit(QPxR(this, other), RxS(this, other))
  ELSE /\ QPxR(this, other) = 0
       /\ QPxS(this, other) = 0
       /\ BoxesMeet(this, other)

AnyEndpointEqual(this, other) ==
  \E a \in {this.start, this.end} : \E b \in {other.start, other.end} :
     IntVec(a) = IntVec(b)

\* the eight components of the four differences other's end points minus
\* this's end points
EightComponents(this, other) ==
  {Sub(IntVec(b), IntVec(a))[c] :
     a \in {this.start, this.end}, b \in {other.start, other.end},
     c \in {"x", "y"}}

\* the number v cut after 16 fraction bits, as a multiple of 2^-16
Fixed16(v) ==
  (IF v.neg THEN -1 ELSE 1)
    * (v.int * 65536 + BitsNat(SubSeq(v.frac \o Zeros(16), 1, 16)))

\* v is within 2^-15 of the fraction n / d
NearRatio(v, n, d) ==
  /\ Fixed16(v) * d - 65536 * n <= MaxOf(d, -d)
  /\ 65536 * n - Fixed16(v) * d <= MaxOf(d, -d)

\* the point is within 2^-15 of the crossing point p + r * ((q - p) x s)/(r x s)
NearCrossing(point, this, other) ==
  \A c \in {"x", "y"} :
     NearRatio(point[c],
               IntVec(this.start)[c] * RxS(this, other)
                 + Dir(this)[c] * QPxS(this, other),
               RxS(this, other))

\* two numbers differ by less than 2^-40
Close(v, w) == v = w \/ Less(Abs(Minus(v, w)), Exact(FALSE, <<1>>, -40))

ClosePoints(a, b) == Close(a.x, b.x) /\ Close(a.y, b.y)

Computed == result # Undefined

(***************************************************************************)
(* Line.intersection                                                       *)
(***************************************************************************)
\* C4: when r x s # 0 the result is 'intersection' with the point p + r * t
\* exactly when t and u both lie in [0, 1], end points included, and
\* 'no-intersection' otherwise; (0,0)-(10,10) against (0,10)-(10,0) gives
\* 'intersection' at (5,5)
C4_CrossingWithinBounds ==
  /\ (Computed /\ RxS(pair.this, pair.line) # 0) =>
        IF /\ InUnit(QPxS(pair.this, pair.line), RxS(pair.this, pair.line))
           /\ InUnit(QPxR(pair.this, pair.line), RxS(pair.this, pair.line))
        THEN result =
               [type  |-> "intersection",
                point |-> add(pair.this.start,
                              multiplyScalar(
                                subtract(pair.this.end, pair.this.start),
                                Divide(Num(QPxS(pair.this, pair.line)),
                                       Num(RxS(pair.this, pair.line))),
                                Undefined))]
        ELSE result = [type |-> "no-intersection"]
  /\ (Computed /\ pair = [this |-> Segment(0, 0, 10, 10),
                          line |-> Segment(0, 10, 10, 0)]) =>
        result = [type |-> "intersection", point |-> Vec(5, 5)]

\* an intersection that touches: the other segment passes through this.end
C4_Witness ==
  /\ Computed
  /\ result.type = "intersection"
  /\ QPxS(pair.this, pair.line) = RxS(pair.this, pair.line)
  /\ result.point = pair.this.end

\* the two results agree exactly: same type, same point
SameCrossing(ab, ba, this, other) ==
  /\ ab.type = "intersection" <=> ba.type = "intersection"
  /\ ab.type = "intersection" =>
       /\ ab.point = ba.point
       /\ NearCrossing(ab.point, this, other)
       /\ InUnit(QPxS(this, other), RxS(this, other))
       /\ InUnit(QPxR(this, other), RxS(this, other))

\* the two results agree up to rounding
CloseCrossing(ab, ba, this, other) ==
  /\ ab.type = "intersection" <=> ba.type = "intersection"
  /\ ab.type = "intersection" =>
       /\ ClosePoints(ab.point, ba.point)
       /\ NearCrossing(ab.point, this, other)
       /\ NearCrossing(ba.point, this, other)
       /\ InUnit(QPxS(this, other), RxS(this, other))
       /\ InUnit(QPxR(this, other), RxS(this, other))

\* C5 as stated: A.intersection(B) is 'intersection' iff B.intersection(A)
\* is, both return the same point, and the point lies on both segments
C5_Symmetric ==
  Computed =>
    SameCrossing(result, LineIntersection(pair.line, pair.this),
                 pair.this, pair.line)

\* C5: A.intersection(B) is 'intersection' iff B.intersection(A) is; the
\* two points agree up to rounding (they differ by less than 2^-40) and
\* each is within 2^-15 of the crossing point of the two segments
C5_SymmetricUpToRounding ==
  Computed =>
    CloseCrossing(result, LineIntersection(pair.line, pair.this),
                  pair.this, pair.line)

\* the two calls return different points
C5_Witness ==
  /\ Computed
  /\ result.type = "intersection"
  /\ LineIntersection(pair.line, pair.this).type = "intersection"
  /\ result.point # LineIntersection(pair.line, pair.this).point

\* C6: r x s = 0 with (q - p) x r # 0 gives 'parallel-non-intersecting',
\* without a point, as for (0,0)-(10,0) and (0,5)-(10,5)
C6_Parallel ==
  (/\ Computed
   /\ RxS(pair.this, pair.line) = 0
   /\ QPxR(pair.this, pair.line) # 0)
    => result = [type |-> "parallel-non-intersecting"]

C6_Witness ==
  /\ Computed
  /\ pair = [this |-> Segment(0, 0, 10, 0), line |-> Segment(0, 5, 10, 5)]
  /\ result.type = "parallel-non-intersecting"

\* C7: colinear segments with an end point in common give
\* 'colinear-overlapping', whatever the signs of the differences, as for
\* (0,0)-(10,0) and (10,0)-(20,0)
C7_SharedEndpoint ==
  (/\ Computed
   /\ RxS(pair.this, pair.line) = 0
   /\ QPxR(pair.this, pair.line) = 0
   /\ AnyEndpointEqual(pair.this, pair.line))
    => result = [type |-> "colinear-overlapping"]

\* a shared end point with all other differences negative
C7_Witness ==
  /\ Computed
  /\ pair = [this |-> Segment(0, 0, 10, 0), line |-> Segment(10, 0, 20, 0)]
  /\ result.type = "colinear-overlapping"

\* C8: colinear segments with no end point in common give 'colinear-joint'
\* exactly when all eight components of the four differences are negative,
\* and 'colinear-disjoint' otherwise
C8_SignsDecide ==
  (/\ Computed
   /\ RxS(pair.this, pair.line) = 0
   /\ QPxR(pair.this, pair.line) = 0
   /\ ~AnyEndpointEqual(pair.this, pair.line))
    => result =
         IF \A d \in EightComponents(pair.this, pair.line) : d < 0
         THEN [type |-> "colinear-joint"]
         ELSE [type |-> "colinear-disjoint"]

C8_Witness ==
  /\ Computed
  /\ result.type = "colinear-joint"
  /\ Dir(pair.this) # [x |-> 0, y |-> 0]
  /\ Dir(pair.line) # [x |-> 0, y |-> 0]
  /\ ~AnyEndpointEqual(pair.this, pair.line)

Proper(seg) == Dir(seg) # [x |-> 0, y |-> 0]

\* C9 as stated: segments reported 'colinear-disjoint' have no point in
\* common (checked here for segments of non-zero length)
C9_DisjointHasNoCommonPoint ==
  (/\ Computed
   /\ Proper(pair.this) /\ Proper(pair.line)
   /\ result.type = "colinear-disjoint")
    => ~Meet(pair.this, pair.line)

\* C10 as stated: of segments reported 'colinear-joint', an end point of
\* one is a point of the other (checked here for segments of non-zero length)
C10_JointSharesEndpoint ==
  (/\ Computed
   /\ Proper(pair.this) /\ Proper(pair.line)
   /\ result.type = "colinear-joint") =>
     \/ \E v \in {pair.line.start, pair.line.end} : OnSegment(IntVec(v), pair.this)
     \/ \E v \in {pair.this.start, pair.this.end} : OnSegment(IntVec(v), pair.line)

(***************************************************************************)
(* Rays.intersect                                                          *)
(***************************************************************************)
\* the points Line.intersection gives for the ray against the obstacles
Hits(line, obstacles) ==
  {LineIntersection(line, obstacles[k]).point :
     k \in {j \in DOMAIN obstacles :
              "point" \in DOMAIN LineIntersection(line, obstacles[j])}}

\* the point is one of the hits and none is nearer to the start of the ray
ClosestOf(point, line, hits) ==
  /\ point \in hits
  /\ \A h \in hits :
        ~Less(distance(line.start, h), distance(line.start, point))

\* C1: after intersect with a non-empty list of obstacles, the
\* intersectionPoint of every ray is the nearest to its start of the points
\* its obstacles give, and a copy of its end when none gives a point
C1_ClosestHit ==
  (call.op = "intersect" /\ call.obstacles # <<>>) =>
     \A i \in DOMAIN rays :
        IF Hits(rays[i], call.obstacles) = {}
        THEN rays[i].intersectionPoint = rays[i].end
        ELSE ClosestOf(rays[i].intersectionPoint, rays[i],
                       Hits(rays[i], call.obstacles))

\* a ray with two hits of which the second obstacle of the list gives the
\* nearer, and a ray with none
C1_Witness ==
  /\ call.op = "intersect"
  /\ Len(call.obstacles) = 2
  /\ \E i \in DOMAIN rays :
        /\ Cardinality(Hits(rays[i], call.obstacles)) = 2
        /\ rays[i].intersectionPoint =
             LineIntersection(rays[i], call.obstacles[2]).point
  /\ \E i \in DOMAIN rays :
        /\ Hits(rays[i], call.obstacles) = {}
        /\ rays[i].intersectionPoint = rays[i].end

\* the segment a ray shows: from its start to its terminus
Span(line) == [start |-> line.start, end |-> Terminus(line)]

\* C3 as stated: right after intersect([]) the terminus of every ray is
\* its end, whatever calls came before
C3_NoObstaclesNaturalEnd ==
  (call.op = "intersect" /\ call.obstacles = <<>>) =>
     \A i \in DOMAIN rays : Terminus(rays[i]) = rays[i].end

\* the six tags of the result of Line.intersection
Tags ==
  {"colinear-overlapping", "colinear-disjoint", "colinear-joint",
   "parallel-non-intersecting", "intersection", "no-intersection"}

\* C11: the result of Line.intersection has exactly one of the six tags,
\* and it carries a point if and only if the tag is 'intersection'
C11_TagAndPoint ==
  Computed =>
    /\ result.type \in Tags
    /\ DOMAIN result \subseteq {"type", "point"}
    /\ "point" \in DOMAIN result <=> result.type = "intersection"

\* segments of non-zero length with an end point in common on one line:
\* they touch, and the result has no point
C11_Witness ==
  /\ Computed
  /\ Proper(pair.this) /\ Proper(pair.line)
  /\ result.type = "colinear-overlapping"
  /\ "point" \notin DOMAIN result

(***************************************************************************)
(* The segments under the calls of the public interface                    *)
(***************************************************************************)
\* the end of the segment is where update puts it for its start
Recomputed(line) ==
  line.end = rotateSelf(addScalar(line.start, Num(0), line.config.length),
                        line.start, line.angle)

\* the step changes neither the angle nor the length of the segments
SameShape(before, after) ==
  /\ DOMAIN after = DOMAIN before
  /\ \A i \in DOMAIN before :
        /\ after[i].angle = before[i].angle
        /\ after[i].config.length = before[i].config.length

\* C12: in every state reached from construction by update, intersect,
\* intersection and draw calls on the bundle and on the Lines (the start
\* and the end of the Line not having been set through a getter since its
\* last update), the end of every segment is
\* rotate(start + (0, length), start, angle), and no call changes the angle
\* or the length a segment was constructed with
C12_EndFollowsStart ==
  /\ [](/\ \A i \in DOMAIN rays : Recomputed(rays[i])
        /\ \A j \in DOMAIN lines \ result.touched : Recomputed(lines[j]))
  /\ [][SameShape(rays, rays') /\ SameShape(lines, lines')]_vars

\* a Line of the scene is moved while a moved ray is stopped at a hit
C12_Witness ==
  /\ call.op = "Line.update"
  /\ lines[call.line].start = call.position
  /\ \E i \in DOMAIN rays :
        /\ rays[i].start # Vec(0, 0)
        /\ Terminus(rays[i]) # rays[i].end

\* the step leaves the start and the end of every segment as they were
SameEnds(before, after) ==
  \A i \in DOMAIN before :
     after[i].start = before[i].start /\ after[i].end = before[i].end

\* C13: a second update with the same origin, of the bundle or of a Line,
\* leaves the start and the end of every segment as the first call left them
C13_UpdateIdempotent ==
  [][/\ call'.op = "update again" => SameEnds(rays, rays')
     /\ call'.op = "Line.update again" => SameEnds(lines, lines')]_vars

\* the bundle is updated a second time at an origin away from where it
\* was constructed
C13_Witness ==
  /\ call.op = "update again"
  /\ \A i \in DOMAIN rays :
        rays[i].start = call.position /\ rays[i].start # Vec(0, 0)

(***************************************************************************)
(* The bundle inside a square                                              *)
(***************************************************************************)
\* v lies between a and b, in either order
Within(v, a, b) ==
  \/ LessEq(a, v) /\ LessEq(v, b)
  \/ LessEq(b, v) /\ LessEq(v, a)

\* the point lies on the side, a segment along one of the axes
OnSide(point, side) ==
  \/ /\ side.start.x = side.end.x
     /\ point.x = side.start.x
     /\ Within(point.y, side.start.y, side.end.y)
  \/ /\ side.start.y = side.end.y
     /\ point.y = side.start.y
     /\ Within(point.x, side.start.x, side.end.x)

\* the point is within 2^-40 of the line of the side, between its ends
NearSide(point, side) ==
  \/ /\ side.start.x = side.end.x
     /\ Close(point.x, side.start.x)
     /\ Within(point.y, side.start.y, side.end.y)
  \/ /\ side.start.y = side.end.y
     /\ Close(point.y, side.start.y)
     /\ Within(point.x, side.start.x, side.end.x)

\* p is nearer to the origin than q: no farther along either axis, and
\* nearer along one
StrictlyCloser(origin, p, q) ==
  /\ LessEq(Abs(Minus(p.x, origin.x)), Abs(Minus(q.x, origin.x)))
  /\ LessEq(Abs(Minus(p.y, origin.y)), Abs(Minus(q.y, origin.y)))
  /\ \/ Less(Abs(Minus(p.x, origin.x)), Abs(Minus(q.x, origin.x)))
     \/ Less(Abs(Minus(p.y, origin.y)), Abs(Minus(q.y, origin.y)))

\* the origin is strictly inside the square with this corner and side, and
\* every side is nearer to it than the reach
Enclosed(origin, corner, side, reach) ==
  \A d \in {Minus(origin.x, corner.x), Minus(origin.y, corner.y),
            Minus(Plus(corner.x, side), origin.x),
            Minus(Plus(corner.y, side), origin.y)} :
     Less(Num(0), d) /\ Less(d, reach)

\* intersect(square) has just been called with the origin enclosed
InsideSquare ==
  /\ call.op = "intersect"
  /\ call.obstacles = lines
  /\ Len(lines) = 4
  /\ \A i \in DOMAIN rays :
        Enclosed(rays[i].start, lines[1].start, lines[1].config.length,
                 rays[i].config.length)

\* C14 as stated: with the origin strictly inside the square and every side
\* nearer than the length of the rays, after update and intersect(square)
\* the intersectionPoint of every ray lies on a side of the square and is
\* nearer to the origin than the end of the ray
C14_ClippedOnSquare ==
  InsideSquare =>
    \A i \in DOMAIN rays :
       /\ \E j \in DOMAIN lines : OnSide(rays[i].intersectionPoint, lines[j])
       /\ StrictlyCloser(rays[i].start, rays[i].intersectionPoint, rays[i].end)

\* C14: with the origin strictly inside the square and every side nearer
\* than the length of the rays, after update and intersect(square) the
\* intersectionPoint of every ray lies on a side of the square up to
\* rounding (within 2^-40 of it) and is nearer to the origin than the end
\* of the ray
C14_ClippedNearSquare ==
  InsideSquare =>
    \A i \in DOMAIN rays :
       /\ \E j \in DOMAIN lines : NearSide(rays[i].intersectionPoint, lines[j])
       /\ StrictlyCloser(rays[i].start, rays[i].intersectionPoint, rays[i].end)

\* a ray stopped one rounding error short of the side it runs into, and a
\* ray stopped on its side
C14_Witness ==
  /\ InsideSquare
  /\ \E i \in DOMAIN rays :
        \A j \in DOMAIN lines : ~OnSide(rays[i].intersectionPoint, lines[j])
  /\ \E i \in DOMAIN rays :
        \E j \in DOMAIN lines : OnSide(rays[i].intersectionPoint, lines[j])

(***************************************************************************)
(* The angles of the bundle                                                *)
(***************************************************************************)
\* angleMin + i * (angleMax - angleMin) / n, as the expression is evaluated
Sampled(i, n, angle) ==
  Plus(Num(angle[1]),
       Divide(Times(Num(i), Num(angle[2] - angle[1])), Num(n)))

\* the angles are pairwise distinct and none is the end of the range
DistinctBelowEnd(angles, angle) ==
  angle[1] # angle[2] =>
    /\ \A i \in DOMAIN angles : \A j \in DOMAIN angles :
          i # j => angles[i] # angles[j]
    /\ \A i \in DOMAIN angles : angles[i] # Num(angle[2])

\* C15 as stated: a bundle of n > 0 rays over [angleMin, angleMax] has n
\* segments, the i-th at the angle angleMin + i * (angleMax - angleMin) / n;
\* for angleMin # angleMax the angles are pairwise distinct and none is
\* angleMax
C15_EvenAngles ==
  call.op = "new Rays" =>
    /\ Len(result.angles) = call.config.amount
    /\ \A i \in DOMAIN result.angles :
          result.angles[i] = Sampled(i - 1, call.config.amount, call.config.angle)
    /\ DistinctBelowEnd(result.angles, call.config.angle)

\* C15: a bundle of n > 0 rays over [angleMin, angleMax] has n segments,
\* the i-th at (i / n) * (angleMax - angleMin) + angleMin, which is
\* angleMin + i * (angleMax - angleMin) / n up to rounding (within 2^-15
\* of it); for angleMin # angleMax the angles are pairwise distinct and
\* none is angleMax
C15_EvenAnglesUpToRounding ==
  call.op = "new Rays" =>
    /\ Len(result.angles) = call.config.amount
    /\ \A i \in DOMAIN result.angles :
          NearRatio(result.angles[i],
                    call.config.angle[1] * call.config.amount
                      + (i - 1) * (call.config.angle[2] - call.config.angle[1]),
                    call.config.amount)
    /\ DistinctBelowEnd(result.angles, call.config.angle)

\* three rays over a range that does not start at 0, one of them at an
\* angle that is not the value of the expression
C15_Witness ==
  /\ call.op = "new Rays"
  /\ call.config.amount = 3
  /\ call.config.angle[1] # 0
  /\ call.config.angle[1] # call.config.angle[2]
  /\ \E i \in DOMAIN result.angles :
        result.angles[i] # Sampled(i - 1, 3, call.config.angle)

(***************************************************************************)
(* The origin of the bundle                                                *)
(***************************************************************************)
\* C16: in every reachable state all rays of the bundle start at the same
\* point, and right after Rays.update(origin) that point is the origin
C16_SharedOrigin ==
  /\ \A i \in DOMAIN rays : \A j \in DOMAIN rays :
        rays[i].start = rays[j].start
  /\ call.op = "update" =>
        \A i \in DOMAIN rays : rays[i].start = call.position

\* the bundle is moved from one origin to another while a ray is stopped
\* at a hit found from the first
C16_Witness ==
  /\ call.op = "update"
  /\ \A i \in DOMAIN rays : rays[i].start = call.position
  /\ \E i \in DOMAIN rays :
        /\ rays[i].intersectionPoint # Undefined
        /\ rays[i].intersectionPoint.x # rays[i].start.x
        /\ rays[i].intersectionPoint.y # rays[i].start.y

(***************************************************************************)
(* Vector2D: usage errors                                                  *)
(***************************************************************************)
\* the operands that are no Vector2D: none passed, null, a number, an
\* object with x and y of another class, a string
NonVectors == {Undefined, Null, Num(5), PlainObject, String}

\* the call threw, returned nothing and left the receiver as it was
Failed ==
  /\ result.threw
  /\ result.returns = Undefined
  /\ result.this = call.this

\* C17: add, subtract, multiply, divide and their *Self forms called with a
\* missing or non-vector operand, and every scalar operation called without
\* its first scalar, throw instead of returning a vector, and the receiver
\* of a failed call keeps its x and y
C17_UsageErrorThrows ==
  call.op = "called" =>
    /\ call.method \in VectorMethods /\ call.args[1] \in NonVectors => Failed
    /\ /\ call.method \in
            ScalarMethods \cup {"clampScalar", "clampScalarSelf"}
       /\ call.args[1] = Undefined
       => Failed

\* divideSelf is called with an object { x, y } that is no Vector2D
C17_Witness ==
  /\ call.op = "called"
  /\ call.method = "divideSelf"
  /\ call.args[1] = PlainObject
  /\ ~IsZero(call.this.x)
  /\ Failed

(***************************************************************************)
(* Vector2D: the pure and the *Self forms                                  *)
(***************************************************************************)
\* the pure forms the statement names, and the *Self form of each
PairedMethods == PureMethods \ {"normalize"}

SelfForm(method) == method \o "Self"

\* C18: a pure form that does not throw leaves the receiver and the operands
\* as they were and returns a new vector whose value is the value the
\* receiver has after the *Self form on the same inputs; a *Self form that
\* does not throw returns the receiver itself
C18_PureAndSelfAgree ==
  call.op = "called" /\ ~result.threw =>
    /\ call.method \in PairedMethods =>
         /\ result.this = call.this
         /\ \A i \in DOMAIN call.args :
               result.args[i] = Arg(call.this, call.args[i])
         /\ ~result.same
         /\ DOMAIN result.returns = {"x", "y"}
         /\ result.returns =
              Invoked(SelfForm(call.method), call.this, call.args).this
    /\ call.method \in {SelfForm(m) : m \in PairedMethods} =>
         /\ result.same
         /\ result.returns = result.this

\* a.multiply(a) on a = (2, -3) returns a new (4, 9), the value a itself has
\* after a.multiplySelf(a)
C18_Witness ==
  /\ call.op = "called"
  /\ call.method = "multiply"
  /\ call.this = Vec(2, -3)
  /\ call.args[1] = This
  /\ result.this = Vec(2, -3)
  /\ result.returns = Vec(4, 9)
  /\ Invoked("multiplySelf", call.this, call.args).this = Vec(4, 9)
  /\ Invoked("multiplySelf", call.this, call.args).same

(***************************************************************************)
(* Vector2D: a.add(b).subtract(b)                                          *)
(***************************************************************************)
\* Number.EPSILON, 2^-52
Epsilon == Double(FALSE, <<>>, -52)

\* got is within the rounding of one addition and one subtraction of a:
\* |got - a| <= 2^-52 * (|a| + |b|)
WithinRounding(got, a, b) ==
  LessEq(Abs(Minus(got, a)), Times(Epsilon, Plus(Abs(a), Abs(b))))

\* neither call threw, and a and b are what they were
OperandsKept ==
  /\ ~result.threw
  /\ result.this = call.this
  /\ result.args[1] = Arg(call.this, call.args[1])

\* C19 as stated: a.add(b).subtract(b) has exactly the components of a, and
\* a and b are unchanged by the two calls
C19_AddThenSubtract ==
  call.op = "chained" =>
    /\ OperandsKept
    /\ result.returns.x = call.this.x
    /\ result.returns.y = call.this.y

\* C19 up to rounding: each component of a.add(b).subtract(b) is within
\* 2^-52 * (|a| + |b|) of the component of a, and a and b are unchanged by
\* the two calls
C19_AddThenSubtractUpToRounding ==
  call.op = "chained" =>
    /\ OperandsKept
    /\ WithinRounding(result.returns.x, call.this.x,
                      Arg(call.this, call.args[1]).x)
    /\ WithinRounding(result.returns.y, call.this.y,
                      Arg(call.this, call.args[1]).y)

\* a = (0.1, 1) and b = (1, 0.1): the x that comes back is not 0.1
C19_Witness ==
  /\ call.op = "chained"
  /\ call.this = Vector2D(Tenth, Num(1))
  /\ call.args[1] = Vector2D(Num(1), Tenth)
  /\ OperandsKept
  /\ result.returns.x # Tenth
  /\ Less(Tenth, result.returns.x)
  /\ WithinRounding(result.returns.x, Tenth, Num(1))

(***************************************************************************)
(* Vector2D: normalize on the zero vector                                  *)
(***************************************************************************)
\* C20: normalize on a vector of magnitude 0 returns (0, 0) and
\* normalizeSelf leaves the vector at (0, 0); no component is NaN or an
\* infinity and no error is thrown
C20_NormalizeZero ==
  /\ call.op = "called"
  /\ call.method \in {"normalize", "normalizeSelf"}
  /\ IsZero(Hypot(call.this.x, call.this.y))
  => /\ ~result.threw
     /\ result.returns = Vec(0, 0)
     /\ result.this = Vec(0, 0)
     /\ result.returns.x \notin {NaN, Infinity, NegativeInfinity}
     /\ result.returns.y \notin {NaN, Infinity, NegativeInfinity}
     /\ result.same <=> call.method = "normalizeSelf"

\* normalizeSelf on (0, 0) returns the receiver, still (0, 0)
C20_Witness ==
  /\ call.op = "called"
  /\ call.method = "normalizeSelf"
  /\ call.this = Vec(0, 0)
  /\ ~result.threw
  /\ result.same
  /\ result.this = Vec(0, 0)

(***************************************************************************)
(* What update, intersect and draw leave alone                             *)
(***************************************************************************)
\* C21: Line.update does not touch the stored intersectionPoint: after
\* Rays.update every ray has the intersectionPoint it had before the call
C21_UpdateKeepsHit ==
  [][call'.op = "update" =>
       /\ DOMAIN rays' = DOMAIN rays
       /\ \A i \in DOMAIN rays :
             rays'[i].intersectionPoint = rays[i].intersectionPoint]_vars

\* right after an update to a new origin a ray still stores the hit of the
\* intersect before it, a point that is not on the ray any more
C21_Witness ==
  /\ call.op = "update"
  /\ \E i \in DOMAIN rays :
        /\ rays[i].start = call.position
        /\ rays[i].intersectionPoint # Undefined
        /\ rays[i].intersectionPoint # rays[i].end
        /\ Integral(rays[i].intersectionPoint)
        /\ Integral(rays[i].start) /\ Integral(rays[i].end)
        /\ ~OnSegment(IntVec(rays[i].intersectionPoint), rays[i])

\* the bundle with every stored intersectionPoint forgotten
Unset(bundle) ==
  [i \in DOMAIN bundle |-> [bundle[i] EXCEPT !.intersectionPoint = Undefined]]

\* C22 as stated: for any obstacle list the bundle after Rays.intersect is
\* the one the same call leaves when it starts from the bundle without its
\* stored intersectionPoints: what was stored before has no influence
C22_IntersectForgetsHits ==
  [][call'.op = "intersect" =>
       rays' = Intersected(Unset(rays), call'.obstacles)]_vars

\* the two bundles agree on everything but the stored intersectionPoints
SameButHits(before, after) == Unset(after) = Unset(before)

\* C23: Rays.intersect changes nothing but the intersectionPoint of the
\* rays (their start and end and the whole of every obstacle stay as they
\* were), and Line.intersection and draw change no segment at all
C23_OnlyHitsChange ==
  [][/\ call'.op = "intersect" =>
          SameButHits(rays, rays') /\ lines' = lines
     /\ call'.op \in {"Line.intersection", "draw"} =>
          rays' = rays /\ lines' = lines]_vars

\* after intersect a ray stops at a hit between its ends, its end being
\* where update put it
C23_Witness ==
  /\ call.op = "intersect"
  /\ call.obstacles = lines
  /\ \E i \in DOMAIN rays :
        /\ rays[i].intersectionPoint \notin {Undefined, rays[i].end}
        /\ rays[i].end = Moved(rays[i], rays[i].start).end
        /\ rays[i].start # Vec(0, 0)

(***************************************************************************)
(* Rays.intersect split by ray                                             *)
(***************************************************************************)
\* ray i is what the sequential loop makes of it after the obstacles its
\* worker has scanned so far
AsSequential(i) ==
  rays[i] = [call.before[i] EXCEPT
               !.intersectionPoint =
                  Scan(call.before[i], lines, call.done[i]).intersectionPoint]

\* a step of the worker of ray i leaves every other ray and the closest
\* and record of every other worker as they were
OwnWritesOnly ==
  \A i \in DOMAIN rays :
     call'.done[i] # call.done[i] =>
        \A j \in DOMAIN rays \ {i} :
           rays'[j] = rays[j] /\ result'[j] = result[j]

\* C24: with the rays of one intersect call processed by separate workers
\* in any interleaving, every ray is at every moment what the sequential
\* loop makes of it after the same number of obstacles, so that the bundle
\* at the end is the one the sequential loop leaves; and no worker writes
\* what belongs to another ray
C24_RaysIndependent ==
  /\ [](/\ \A i \in DOMAIN rays : AsSequential(i)
        /\ (\A i \in DOMAIN rays : call.done[i] = Len(lines)) =>
              rays = Intersected(call.before, lines))
  /\ [][OwnWritesOnly]_vars

\* all workers have finished with two obstacles: the first ray has a hit
\* that it did not store before, the last ray has none
C24_Witness ==
  /\ Len(lines) = 2
  /\ \A i \in DOMAIN rays : call.done[i] = 2
  /\ rays = Intersected(call.before, lines)
  /\ rays[1].intersectionPoint # rays[1].end
  /\ rays[1].intersectionPoint # call.before[1].intersectionPoint
  /\ rays[4].intersectionPoint = rays[4].end

(***************************************************************************)
(* The animation loop                                                      *)
(***************************************************************************)
\* C25 as stated: a frame makes one update, one intersect and one draw, in
\* this order, so that what the frame strokes is the bundle as this
\* frame's update and intersect leave it
C25_UpdateIntersectDraw ==
  call.op = "animate" =>
    /\ call.calls = <<"update", "intersect", "draw">>
    /\ result.rays = RaysDraw(rays)

\* C28: no ray has the mouse object as its start point, so a pointermove
\* between two frames changes the mouse vector and no start, end or
\* intersectionPoint; the rays take the coordinates of the mouse at the
\* update of the next frame
C28_PointerMovesOnlyMouse ==
  /\ [](/\ pair.held = {}
        /\ call.op = "animate" =>
              \A i \in DOMAIN rays :
                 rays[i].start = Vector2D(call.position.x, call.position.y))
  /\ [][call'.op = "pointermove" =>
          /\ rays' = rays
          /\ lines' = lines
          /\ pair'.mouse = Vector2D(call'.position.x, call'.position.y)]_vars

\* the pointer has moved away from where the last frame put the rays, one
\* of which is stopped at a hit
C28_Witness ==
  /\ call.op = "pointermove"
  /\ rays # <<>>
  /\ \A i \in DOMAIN rays :
        rays[i].start # pair.mouse /\ rays[i].start # Vec(0, 0)
  /\ \E i \in DOMAIN rays :
        rays[i].intersectionPoint \notin {Undefined, rays[i].end}

\* C26: a bundle built with amount = 0 or with the two ends of the angle
\* range equal has no rays, so that update, intersect and draw on it do
\* nothing
C26_NoRaysForEmptyRange ==
  call.op = "new Rays" /\ (call.config.amount = 0
                           \/ call.config.angle[1] = call.config.angle[2]) =>
    Len(result.angles) = 0

\* the obstacles in the order f, a permutation of their indices
Reordered(obstacles, f) == [i \in DOMAIN obstacles |-> obstacles[f[i]]]

\* the points the obstacles give the ray, with their distances from its start
HitsOf(line, obstacles) ==
  {[point |-> LineIntersection(line, obstacles[j]).point,
    dist |-> distance(line.start, LineIntersection(line, obstacles[j]).point)] :
     j \in {k \in DOMAIN obstacles :
              "point" \in DOMAIN LineIntersection(line, obstacles[k])}}

\* C27: after intersect with a non-empty list of obstacles, every ray has
\* the intersectionPoint that intersect gives with the same obstacles in
\* any other order
C27_ObstacleOrderIrrelevant ==
  call.op = "intersect" /\ call.obstacles # <<>> =>
    \A f \in Permutations(DOMAIN call.obstacles) :
       Intersected(rays, Reordered(call.obstacles, f)) = rays

\* intersect was called with two different obstacles that one ray meets at
\* different distances from its start
C27_Witness ==
  /\ call.op = "intersect"
  /\ Len(call.obstacles) = 2
  /\ call.obstacles[1] # call.obstacles[2]
  /\ \E i \in DOMAIN rays :
        \E h \in HitsOf(rays[i], call.obstacles) :
           \E g \in HitsOf(rays[i], call.obstacles) : Less(h.dist, g.dist)

\* the Line that update leaves at start when config.length is length
ZeroRay(start, angle, length) ==
  NewLine(start, Num(angle), [length |-> length])

\* C30: a segment whose end is its start, which is what update produces when
\* config.length is 0 or absent, gets one of the three colinear results and
\* no point from every other segment, so that intersect leaves such a ray
\* at its end
C30_ZeroLengthIsColinear ==
  Computed /\ pair.this.start = pair.this.end =>
    /\ result.type \in {"colinear-overlapping", "colinear-joint",
                        "colinear-disjoint"}
    /\ "point" \notin DOMAIN result
    /\ \A angle \in {0, 90, 180, 270} : \A length \in {Num(0), Undefined} :
          /\ ZeroRay(pair.this.start, angle, length).end = pair.this.start
          /\ LineIntersection(ZeroRay(pair.this.start, angle, length),
                              pair.line) = result
          /\ Intersected(<<ZeroRay(pair.this.start, angle, length)>>,
                         <<pair.line>>)[1].intersectionPoint = pair.this.end

\* the segment of zero length is off the line of the other segment, which
\* has a length, and the result is colinear-disjoint
C30_Witness ==
  /\ Computed
  /\ pair.this.start = pair.this.end
  /\ pair.line.start # pair.line.end
  /\ ~IsZero(crossProduct(subtract(pair.line.start, pair.this.start),
                          subtract(pair.line.end, pair.line.start)))
  /\ result.type = "colinear-disjoint"

\* x + y and x * y of two doubles as real numbers, with no rounding
ExactAligned(x, y, mx, my, less) ==
  Exact(IF x.neg = y.neg \/ ~less THEN x.neg ELSE y.neg,
        IF x.neg = y.neg THEN AddBits(mx, my)
        ELSE SubBits(IF less THEN my ELSE mx, IF less THEN mx ELSE my),
        MinExp(x, y))

ExactPlus(x, y) ==
  IF IsZero(x) THEN y
  ELSE IF IsZero(y) THEN x
  ELSE ExactAligned(x, y, Aligned(x, MinExp(x, y)), Aligned(y, MinExp(x, y)),
                    CmpLess(Aligned(x, MinExp(x, y)), Aligned(y, MinExp(x, y))))

ExactMinus(x, y) == ExactPlus(x, Neg(y))

ExactTimes(x, y) ==
  IF IsZero(x) \/ IsZero(y) THEN Num(0)
  ELSE Exact(x.neg # y.neg, MulBits(Mag(x), Mag(y)), Exp(x) + Exp(y))

\* (point - start) x (end - start), as a real number
OffLine(point, start, end) ==
  ExactMinus(ExactTimes(ExactMinus(point.x, start.x), ExactMinus(end.y, start.y)),
             ExactTimes(ExactMinus(point.y, start.y), ExactMinus(end.x, start.x)))

\* the point lies on the closed segment from the start to the end of the line
OnRay(point, line) ==
  /\ IsZero(OffLine(point, line.start, line.end))
  /\ Within(point.x, line.start.x, line.end.x)
  /\ Within(point.y, line.start.y, line.end.y)

NearWithin(v, a, b) == Within(v, a, b) \/ Close(v, a) \/ Close(v, b)

\* the point is less than 2^-40 away from the segment of the line
NearRay(point, line) ==
  /\ \/ IsZero(OffLine(point, line.start, line.end))
     \/ Less(Abs(OffLine(point, line.start, line.end)),
             Times(Exact(FALSE, <<1>>, -40),
                   MathMax(Abs(Minus(line.end.x, line.start.x)),
                           Abs(Minus(line.end.y, line.start.y)))))
  /\ NearWithin(point.x, line.start.x, line.end.x)
  /\ NearWithin(point.y, line.start.y, line.end.y)

\* C29 as stated: with a non-empty list of obstacles, whenever a frame
\* draws, the terminus of every ray (its intersectionPoint, its end while
\* none is set) lies on the closed segment from its start to its end
C29_DrawnOnRay ==
  lines # <<>> =>
    \A i \in DOMAIN rays : OnRay(Terminus(rays[i]), rays[i])

\* the rays as a frame finds them and draws them: none is set only before
\* the first frame, and a hit is the one intersect computes from the start
\* and the end the ray has
FreshHits ==
  \A i \in DOMAIN rays :
     /\ NearRay(Terminus(rays[i]), rays[i])
     /\ IF rays[i].intersectionPoint = Undefined
        THEN call.op \in {"new", "pointermove"} /\ rays[i].start = Vec(0, 0)
        ELSE rays[i].intersectionPoint
               = Intersected(Unset(rays), lines)[i].intersectionPoint

\* C29: with a non-empty list of obstacles, for any interleaving of
\* pointermove events with frames, every frame draws the rays as it finds
\* them, and the terminus of every ray is then the end (before the first
\* intersect) or the hit computed from the start and the end the ray has,
\* which lies on the segment from the start to the end up to rounding
\* (less than 2^-40 away from it)
C29_DrawnNearRay ==
  /\ [](lines # <<>> => FreshHits)
  /\ [][call'.op = "animate" => result'.rays = RaysDraw(rays)]_vars

\* the pointer has moved since the last frame, and the next frame will draw
\* a ray to a hit that rounding has put off the segment from its start to
\* its end
C29_Witness ==
  /\ call.op = "pointermove"
  /\ lines # <<>>
  /\ \E i \in DOMAIN rays :
        /\ rays[i].intersectionPoint # Undefined
        /\ rays[i].start # pair.mouse
        /\ ~OnRay(rays[i].intersectionPoint, rays[i])
        /\ NearRay(rays[i].intersectionPoint, rays[i])

(***************************************************************************)
(* The rays stop at the nearest obstacle they cross                        *)
(***************************************************************************)
ExactSubtract(a, b) == Vector2D(ExactMinus(a.x, b.x), ExactMinus(a.y, b.y))

ExactCross(a, b) == ExactMinus(ExactTimes(a.x, b.y), ExactTimes(a.y, b.x))

ExactDot(a, b) == ExactPlus(ExactTimes(a.x, b.x), ExactTimes(a.y, b.y))

\* n / d for d # 0, as the pair of n and d with d made positive
Ratio(n, d) == [n |-> IF d.neg THEN Neg(n) ELSE n, d |-> Abs(d)]

\* slack <= n / d <= 1 - slack, and the same with <
InsideUnit(q, slack) ==
  /\ LessEq(ExactTimes(slack, q.d), q.n)
  /\ LessEq(q.n, ExactTimes(ExactMinus(Num(1), slack), q.d))

StrictlyInsideUnit(q, slack) ==
  /\ Less(ExactTimes(slack, q.d), q.n)
  /\ Less(q.n, ExactTimes(ExactMinus(Num(1), slack), q.d))

\* the segments seg and other cross, at start + r * t = other.start + s * u
\* with t strictly inside the unit interval and u inside it, each by more
\* than the slack; r, s and qp are the two directions and the difference of
\* the starts
CrossesInside(r, s, qp, slack) ==
  /\ ~IsZero(ExactCross(r, s))
  /\ StrictlyInsideUnit(Ratio(ExactCross(qp, s), ExactCross(r, s)), slack)
  /\ InsideUnit(Ratio(ExactCross(qp, r), ExactCross(r, s)), slack)

\* the segment other lies along the line of seg and has a point strictly
\* between the ends of seg, by more than the slack: a and b are where its
\* ends fall along r, in units of 1 / rr
OverlapsInside(a, b, rr, slack) ==
  /\ Less(MathMin(a, b), ExactTimes(ExactMinus(Num(1), slack), rr))
  /\ Less(ExactTimes(slack, rr), MathMax(a, b))

LiesInside(r, s, qp, slack) ==
  /\ IsZero(ExactCross(r, s))
  /\ IsZero(ExactCross(qp, r))
  /\ ~IsZero(ExactDot(r, r))
  /\ OverlapsInside(ExactDot(qp, r), ExactPlus(ExactDot(qp, r), ExactDot(s, r)),
                    ExactDot(r, r), slack)

\* some point of the segment other lies on the segment seg strictly between
\* its ends, in real arithmetic, and at more than the slack from the ends
Obstructs(other, seg, slack) ==
  \/ CrossesInside(ExactSubtract(seg.end, seg.start),
                   ExactSubtract(other.end, other.start),
                   ExactSubtract(other.start, seg.start), slack)
  \/ LiesInside(ExactSubtract(seg.end, seg.start),
                ExactSubtract(other.end, other.start),
                ExactSubtract(other.start, seg.start), slack)

ObstructsExactly(other, seg) == Obstructs(other, seg, Num(0))

\* the slack allowed for rounding: 2^-40 of the length of a segment
Slack == Exact(FALSE, <<1>>, -40)

ObstructsBeyondRounding(other, seg) == Obstructs(other, seg, Slack)

\* the obstacle lies along the line of the ray
AlongRay(obstacle, line) ==
  /\ IsZero(ExactCross(ExactSubtract(line.end, line.start),
                       ExactSubtract(obstacle.end, obstacle.start)))
  /\ IsZero(ExactCross(ExactSubtract(obstacle.start, line.start),
                       ExactSubtract(line.end, line.start)))

\* no obstacle has a point on the shown part of a ray, strictly between its
\* start and its terminus, up to rounding
Unobstructed(bundle, obstacles) ==
  \A i \in DOMAIN bundle : \A k \in DOMAIN obstacles :
     ~ObstructsBeyondRounding(obstacles[k], Span(bundle[i]))

\* the same for the obstacles that do not lie along the line of the ray
UnobstructedByCrossing(bundle, obstacles) ==
  \A i \in DOMAIN bundle : \A k \in DOMAIN obstacles :
     AlongRay(obstacles[k], bundle[i])
       \/ ~ObstructsBeyondRounding(obstacles[k], Span(bundle[i]))

\* C2 as stated, read up to rounding: after update followed by intersect,
\* no point of an obstacle lies on a ray strictly between its start and its
\* terminus, obstacles along the line of the ray included
C2_StopsAtNearest ==
  [][(call.op = "update" /\ call'.op = "intersect")
       => Unobstructed(rays', call'.obstacles)]_vars

\* C2: after update followed by intersect, no point of an obstacle lies on
\* a ray strictly between its start and its terminus up to rounding (the
\* terminus is less than 2^-40 of the shown length past the crossing, or
\* the crossing that far from an end of the obstacle), unless the obstacle
\* lies along the line of the ray: such an obstacle gives no point and
\* does not stop the ray
C2_StopsAtNearestCrossing ==
  [][(call.op = "update" /\ call'.op = "intersect")
       => UnobstructedByCrossing(rays', call'.obstacles)]_vars

\* a moved ray is stopped by a hit that rounding has put past an obstacle
\* that it crosses between the ends of the obstacle, while an obstacle along
\* the ray, between its start and the hit, has not stopped it
HitPastObstacle(line, obstacles) ==
  /\ line.start # Vec(0, 0)
  /\ Terminus(line) \notin {line.start, line.end}
  /\ \E k \in DOMAIN obstacles :
        /\ ~AlongRay(obstacles[k], line)
        /\ CrossesInside(ExactSubtract(Terminus(line), line.start),
                         ExactSubtract(obstacles[k].end, obstacles[k].start),
                         ExactSubtract(obstacles[k].start, line.start), Num(0))
        /\ CrossesInside(ExactSubtract(line.end, line.start),
                         ExactSubtract(obstacles[k].end, obstacles[k].start),
                         ExactSubtract(obstacles[k].start, line.start), Slack)
        /\ ~ObstructsBeyondRounding(obstacles[k], Span(line))
  /\ \E k \in DOMAIN obstacles :
        /\ AlongRay(obstacles[k], line)
        /\ ObstructsExactly(obstacles[k], Span(line))

C2_Witness ==
  /\ call.op = "intersect"
  /\ Len(call.obstacles) = 2
  /\ \E i \in DOMAIN rays : HitPastObstacle(rays[i], call.obstacles)

=============================================================================
